---- MODULE Spec2Model ----
(***************************************************************************)
(* A model of the chelp containers: slotlist.h, slotmap.h (the array       *)
(* free-list variant and the linked free-list variant), slotmap64.h and    *)
(* slottable.h.  Every container is one heap block reached through one     *)
(* pointer; the null pointer is the empty container.                       *)
(*                                                                         *)
(* Representation.  TLC integers are 32-bit signed, so a 32-bit word that  *)
(* packs a version over an index is kept as its two bit fields             *)
(* [index |-> low 24 bits, version |-> high 8 bits], and a plain uint32_t  *)
(* that may hold UINT32_MAX is kept as the signed integer with the same    *)
(* bits (UINT32_MAX is -1).  A pointer is NULL or the position it points   *)
(* at.  Memory that was allocated and never written is JUNK.               *)
(***************************************************************************)
EXTENDS Integers, Sequences, FiniteSets, TLC

VARIABLES
    sm,       \* slotmap.h (array free list): the map pointer 'a' and its block
    smRun,    \* "run", or how the process ended: "crash"
    smIssued, \* history: every id slotmap_add has returned
    smLive,   \* history: the ids returned and not yet removed, with the payload stored
    smAba,    \* history: a remove has hit through an id that was not live
    smCfg,    \* the bounds of this run
    smLastv,  \* history: per slot index, the version of the id issued last
    smRemoves,\* history: the number of removes that hit
    smLast    \* history: the last operation, its id and its result

VARIABLES
    st,       \* slottable.h: the table pointer 'a' and its block
    stRun,    \* "run", or how the process ended: "crash" or "hang"
    stLive,   \* history: the entries added and not yet removed, by their current id,
              \* each with the number of adds before its own
    stLast,   \* history: the last operation, its arguments and its result
    stCfg,    \* the bounds of this run
    stAdds,   \* history: the number of slottable_add calls
    stRemoves \* history: the number of slottable_remove calls

VARIABLES
    sl,       \* slotlist.h: the list pointer 'a' and its block
    slRun,    \* "run", or how the process ended: "crash"
    slLast,   \* history: the last operation, its argument and its result
    slCfg     \* the bounds of this run

VARIABLES
    m64,       \* slotmap64.h: the map pointer 'a' and its block
    m64Issued, \* history: every id slotmap64_add and slotmap64_copy have returned
    m64Live,   \* history: the ids returned and not yet removed
    m64Last,   \* history: the last operation, its id and its result
    m64Cfg,    \* the bounds and the build of this run
    m64Removes \* history: the number of removes that hit

VARIABLES
    lm,       \* slotmap.h (linked free list): the map pointer 'a' and its block
    lmRun,    \* "run", or how the process ended: "hang"
    lmIssued, \* history: every id slotmap_add and slotmap_copy have returned
    lmLive,   \* history: the ids returned and not yet removed
    lmLast,   \* history: the last operation, its id, its result, its source
    lmCfg,    \* the bounds of this run
    lmRemoves,\* history: the number of removes that hit
    lmBurns,  \* history: the number of slotmap_burn calls
    lmBurnt,  \* history: the slots that were on the free list at a slotmap_burn
    sizing    \* a call of SLOT_ALIGN, or the flex loop of slotlist__sbgrowf, and its position

mapVars == <<sm, smRun, smIssued, smLive, smAba, smCfg, smLastv, smRemoves, smLast>>
tableVars == <<st, stRun, stLive, stLast, stCfg, stAdds, stRemoves>>

listVars == <<sl, slRun, slLast, slCfg>>

map64Vars == <<m64, m64Issued, m64Live, m64Last, m64Cfg, m64Removes>>

linkedVars == <<lm, lmRun, lmIssued, lmLive, lmLast, lmCfg, lmRemoves, lmBurns, lmBurnt>>

sizingVars == <<sizing>>

vars == <<mapVars, tableVars, listVars, map64Vars, linkedVars, sizingVars>>

\* What a step of one container leaves alone: the other containers.
notMap == <<tableVars, listVars, map64Vars, linkedVars, sizingVars>>
notTable == <<mapVars, listVars, map64Vars, linkedVars, sizingVars>>
notList == <<mapVars, tableVars, map64Vars, linkedVars, sizingVars>>
notMap64 == <<mapVars, tableVars, listVars, linkedVars, sizingVars>>
notLinked == <<mapVars, tableVars, listVars, map64Vars, sizingVars>>
notSizing == <<mapVars, tableVars, listVars, map64Vars, linkedVars>>

----------------------------------------------------------------------------
(* Bounds of the model. *)

\* sizeof(*(a)): the size in bytes of the caller's record type.
ItemSize == 4
\* slotmap.h: slots drawn from the block (the 'used' high-water mark) and
\* successful removes in one run.
MaxUsed == 3
MaxRemoves == 3
\* slotlist.h: items in the list of a short run, items past the first
\* capacity in a growing run, and the largest n passed to expand, add and
\* truncate.
MaxListCount == 3
ListGrowExtra == 1
MaxExpand == 2
\* slottable.h: sizeof(*(a)), slottable_add calls and slottable_remove calls
\* in one run.
TableItemSize == 4
MaxTableAdds == 3
MaxTableRemoves == 2
\* The same for the runs that fill the first table and grow it: entries
\* beyond the first capacity, and removes.
TableGrowExtra == 1
TableGrowRemoves == 2
\* slotmap.h (linked free list): slotmap_burn calls in one run.
MaxBurns == 1
\* The run that goes on using the ids of one slot after a burn: the removes
\* that hit, the payloads.
StaleRemoves == 4
StaleData == {1}
\* slotmap64.h: sizeof(*(a)).
ItemSize64 == 8
\* The same for the runs that fill the first block and grow it: slots drawn
\* beyond the first capacity, and removes.
GrowExtra == 1
GrowRemoves == 2
GrowData == {1}
\* The runs that recycle a slot until its version wraps: the slots drawn, the
\* removes, the payloads.
WrapSlots == {0}
WrapRemoves == 257
WrapData == {1}
\* The payload values a caller stores in a record.
Data == {1, 2}

----------------------------------------------------------------------------
(* slotbase.h *)

NULL == [nil |-> TRUE]
JUNK == [junk |-> TRUE]

\* An array in the block is the function of its written cells.
Cell(f, k) == IF k \in DOMAIN f THEN f[k] ELSE JUNK
Put(f, k, v) == [j \in (DOMAIN f) \cup {k} |-> IF j = k THEN v ELSE f[j]]

\* A container that a run does not use stays the null pointer.
IdleMap ==
    /\ sm = NULL /\ smRun = "run" /\ smIssued = {} /\ smLive = {} /\ smAba = FALSE
    /\ smCfg = [run |-> "idle"] /\ smLastv = <<>> /\ smRemoves = 0
    /\ smLast = [op |-> "init"]

IdleTable ==
    /\ st = NULL /\ stRun = "run" /\ stLive = {} /\ stLast = [op |-> "init"]
    /\ stCfg = [run |-> "idle"] /\ stAdds = 0 /\ stRemoves = 0

IdleMap64 ==
    /\ m64 = NULL /\ m64Issued = {} /\ m64Live = {} /\ m64Last = [op |-> "init"]
    /\ m64Cfg = [run |-> "idle"] /\ m64Removes = 0

IdleLinked ==
    /\ lm = NULL /\ lmRun = "run" /\ lmIssued = {} /\ lmLive = {}
    /\ lmLast = [op |-> "init"] /\ lmCfg = [run |-> "idle"] /\ lmRemoves = 0
    /\ lmBurns = 0
    /\ lmBurnt = {}

IdleList == sl = NULL /\ slRun = "run" /\ slLast = [op |-> "init"] /\ slCfg = [run |-> "idle"]

IdleSizing == sizing = [run |-> "idle"]

SLOT_ALIGN_SIZE == 16
SLOT_EXT_SIZE == 0
SizeofSlotId == 4

SLOT_DIV_ALIGN(n, d) == ((n - 1) \div d) + 1

\* x & ~m on non-negative integers, bit by bit
RECURSIVE slot__andnot(_, _)
slot__andnot(x, m) ==
    IF x = 0 THEN 0
    ELSE (IF m % 2 = 1 THEN 0 ELSE x % 2) + 2 * slot__andnot(x \div 2, m \div 2)

\* the rounding that leaves a multiple of d alone
SLOT_ALIGN_inclusive(n, d) == slot__andnot(n + d - 1, d - 1)

\* ((n) + (d)) & ~((d) - 1)
SLOT_ALIGN(n, d) == slot__andnot(n + d, d - 1)

SLOT_FLEX_SIZE(n) ==
    IF n < 10 THEN 10
    ELSE IF n < 100 THEN 100
    ELSE IF n < 1000 THEN 1000
    ELSE IF n < 10000 THEN 10000
    ELSE n * 2

----------------------------------------------------------------------------
(* slotmap.h, array free list.  Block: allocated (siz), filled (use),      *)
(* free-list length (frl), freelist[siz] of ids, items[siz].               *)

VersionMod == 256
IndexMod == 16777216

\* A small number as a 32-bit id word.
Word(n) == [index |-> n % IndexMod, version |-> (n \div IndexMod) % VersionMod]

SLOTMAP_MAX_ID == IndexMod - 1
SLOTMAP_NONE_ID == [index |-> SLOTMAP_MAX_ID, version |-> VersionMod - 1]

slotmap_index(id) == id.index
IdVersion(id) == id.version

slotmap__id_keep(id, v) == id

slotmap__id(id, v) == [index |-> slotmap_index(id), version |-> v % VersionMod]

ItemPtr(i) == [nil |-> FALSE, at |-> i]

slotmap_used(a) == IF a.nil THEN 0 ELSE a.use
slotmap_count(a) == IF a.nil THEN 0 ELSE a.use - a.frl

slotmap_at(a, id) ==
    IF a.nil THEN NULL
    ELSE IF slotmap_index(id) < a.use
         THEN IF Cell(a.items, slotmap_index(id)).version # IdVersion(id)
              THEN NULL
              ELSE ItemPtr(slotmap_index(id))
         ELSE NULL

\* An id computed from the byte offset of the record, as by a subtraction of
\* untyped pointers.
slotmap_id_bytes(a, o) == slotmap__id(Word(o.at * ItemSize), Cell(a.items, o.at).version)

\* slotmap_id: (o)-slotmap_array(a) is the record's index, masked and joined
\* with the version byte the record holds.
slotmap_id(a, o) == slotmap__id(Word(o.at), Cell(a.items, o.at).version)

VersionInc_stuck(v) == v

\* item->version++ on the one-byte version of a record
VersionInc(v) == (v + 1) % VersionMod

slotmap_remove(a, id) ==
    LET item == slotmap_at(a, id) IN
    IF a.nil \/ item.nil THEN [a |-> a, item |-> NULL]
    ELSE LET v == VersionInc(Cell(a.items, item.at).version)
             it == [a.items EXCEPT ![item.at].version = v]
         IN [a |-> [a EXCEPT !.items = it,
                             !.freelist = Put(a.freelist, a.frl, slotmap__id(id, v)),
                             !.frl = a.frl + 1],
             item |-> item]

\* The byte size slotmap__make asks realloc for, and the capacity it yields.
slotmap__newsiz(siz, itemsize) ==
    SLOT_ALIGN(SLOT_FLEX_SIZE(siz) * (itemsize + SizeofSlotId)
               + SizeofSlotId * (3 + SLOT_EXT_SIZE), SLOT_ALIGN_SIZE)

\* The capacity, were the block not to grow.
slotmap__newcap_same(siz, itemsize) == siz

slotmap__newcap(siz, itemsize) ==
    (slotmap__newsiz(siz, itemsize) - SizeofSlotId * (3 + SLOT_EXT_SIZE))
        \div (itemsize + SizeofSlotId)

\* realloc keeps the old bytes; memmove carries the 'used' items from behind
\* the old free list to behind the new, longer one.
slotmap__memmove_short(olditems, used) ==
    [k \in (DOMAIN olditems) \cap (0..(used - 1)) |->
        IF k = used - 1 THEN [olditems[k] EXCEPT !.data = 0] ELSE olditems[k]]

slotmap__memmove(olditems, used) ==
    [k \in (DOMAIN olditems) \cap (0..(used - 1)) |-> olditems[k]]

slotmap__grow(arr, x) ==
    IF arr.nil
    THEN [nil |-> FALSE, siz |-> x, use |-> JUNK, frl |-> JUNK,
          freelist |-> <<>>, items |-> <<>>]
    ELSE [arr EXCEPT !.siz = x,
                     !.freelist = [k \in (DOMAIN arr.freelist) \cap (0..(arr.siz - 1))
                                     |-> arr.freelist[k]],
                     !.items = slotmap__memmove(arr.items, arr.use)]

slotmap__needgrow_early(used, siz) == used + 1 >= siz

\* if (used == siz)
slotmap__needgrow(used, siz) == used = siz

\* The pop, were it to read the bottom of the free list.
slotmap__pop_bottom(arr) == Cell(arr.freelist, 0)

\* slotmap__freelist(arr)[--slotmap__frl(arr)]
slotmap__pop(arr) == Cell(arr.freelist, arr.frl - 1)

\* Returns the block, the id and the item pointer; ok is what SLOT_REALLOC
\* answers when it is called.  When it answers NULL, p is NULL and the code
\* goes on to memmove from p + (siz + 3) and to store p[0] = x before it
\* tests p: a load and a store in the page at address 0, which ends the
\* process.  A non-null 'a' has then not been overwritten (the memmove of
\* used > 0 items comes first); a null 'a' is overwritten with NULL.
slotmap__make(arr, itemsize, ok) ==
    IF ~arr.nil /\ arr.frl # 0
    THEN LET x == slotmap__pop(arr) IN
         [a |-> [arr EXCEPT !.frl = arr.frl - 1], id |-> x,
          item |-> ItemPtr(slotmap_index(x)), run |-> "run"]
    ELSE LET siz == IF arr.nil THEN 0 ELSE arr.siz
             used == IF arr.nil THEN 0 ELSE arr.use
         IN IF slotmap__needgrow(used, siz) /\ ~ok
            THEN [a |-> arr, id |-> SLOTMAP_NONE_ID, item |-> NULL, run |-> "crash"]
            ELSE LET p == IF slotmap__needgrow(used, siz)
                          THEN slotmap__grow(arr, slotmap__newcap(siz, itemsize))
                          ELSE arr
                     q == IF arr.nil THEN [p EXCEPT !.use = 0, !.frl = 0] ELSE p
                 IN [a |-> [q EXCEPT !.use = q.use + 1], id |-> Word(q.use),
                     item |-> ItemPtr(q.use), run |-> "run"]

\* slotmap_add, and the caller storing its payload d through the pointer.
slotmap_add(a, itemsize, d, ok) ==
    LET r == slotmap__make(a, itemsize, ok) IN
    IF r.item.nil THEN r
    ELSE [r EXCEPT !.a.items = Put(r.a.items, r.item.at,
                                   [version |-> IdVersion(r.id), data |-> d])]

----------------------------------------------------------------------------
(* The slotmap.h state machine. *)

LiveIds == {l.id : l \in smLive}

GrowUsed == slotmap__newcap(0, ItemSize) + GrowExtra

\* A run fills a few slots with any payloads, or fills the first block and
\* grows it, or recycles its slots until a version wraps.
MapRuns ==
    { [run |-> "small", slots |-> 0..(MaxUsed - 1), removes |-> MaxRemoves, data |-> Data,
       ok |-> BOOLEAN],
      [run |-> "grow", slots |-> 0..(GrowUsed - 1), removes |-> GrowRemoves,
       data |-> GrowData, ok |-> BOOLEAN],
      [run |-> "wrap", slots |-> WrapSlots, removes |-> WrapRemoves, data |-> WrapData,
       ok |-> {TRUE}] }

InitMap ==
    /\ sm = NULL
    /\ smRun = "run"
    /\ smIssued = {}
    /\ smLive = {}
    /\ smAba = FALSE
    /\ smCfg \in MapRuns
    /\ smLastv = <<>>
    /\ smRemoves = 0
    /\ smLast = [op |-> "init", id |-> SLOTMAP_NONE_ID, hit |-> FALSE]
    /\ IdleTable
    /\ IdleList
    /\ IdleMap64
    /\ IdleLinked
    /\ IdleSizing

\* An add that ends the process has not returned: it is recorded as "fault".
MapAdd(d, ok) ==
    LET r == slotmap_add(sm, ItemSize, d, ok) IN
    /\ sm' = r.a
    /\ smRun' = r.run
    /\ smIssued' = IF r.item.nil THEN smIssued ELSE smIssued \cup {r.id}
    /\ smLive' = IF r.item.nil THEN smLive ELSE smLive \cup {[id |-> r.id, d |-> d]}
    /\ smLastv' = IF r.item.nil THEN smLastv
                  ELSE [k \in (DOMAIN smLastv) \cup {slotmap_index(r.id)} |->
                          IF k = slotmap_index(r.id) THEN IdVersion(r.id) ELSE smLastv[k]]
    /\ smLast' = [op |-> IF r.run = "run" THEN "add" ELSE "fault", id |-> r.id,
                  hit |-> ~r.item.nil]
    /\ UNCHANGED <<smRemoves, smAba, smCfg>>
    /\ UNCHANGED notMap

MapRemove(id) ==
    LET r == slotmap_remove(sm, id) IN
    /\ sm' = r.a
    /\ smLive' = IF r.item.nil THEN smLive ELSE {l \in smLive : l.id # id}
    /\ smAba' = (smAba \/ (~r.item.nil /\ id \notin LiveIds))
    /\ smLast' = [op |-> "remove", id |-> IF r.item.nil THEN SLOTMAP_NONE_ID ELSE id,
                  hit |-> ~r.item.nil]
    /\ smRemoves' = IF r.item.nil THEN smRemoves ELSE smRemoves + 1
    /\ UNCHANGED <<smIssued, smLastv, smCfg, smRun>>
    /\ UNCHANGED notMap

NextMap ==
    \/ \E d \in smCfg.data, ok \in smCfg.ok :
          /\ smRun = "run"
          /\ slotmap_count(sm) < slotmap_used(sm) \/ slotmap_used(sm) \in smCfg.slots
          /\ MapAdd(d, ok)
    \/ \E id \in smIssued :
          /\ smRun = "run"
          /\ smRemoves < smCfg.removes
          /\ MapRemove(id)


----------------------------------------------------------------------------
(* Claims about slotmap.h (array free list), checked under SpecMap. *)

slotmap_siz(a) == IF a.nil THEN 0 ELSE a.siz
slotmap_frl(a) == IF a.nil THEN 0 ELSE a.frl

\* C1: right after a remove(h) that returned the record, at(h) is none and a
\* second remove(h) returns none and leaves the whole block as it is.
C1_UseAfterFree ==
    (smLast.op = "remove" /\ smLast.hit) =>
        /\ slotmap_at(sm, smLast.id).nil
        /\ slotmap_remove(sm, smLast.id) = [a |-> sm, item |-> NULL]

C1_Witness ==
    /\ smLast.op = "remove" /\ smLast.hit
    /\ smCfg.run = "small" /\ sm.frl = 2 /\ sm.use = 3

\* Every id returned by add and not removed resolves to its own slot, which
\* holds the version of the id and the payload stored at the add.
HandlesStable ==
    \A l \in smLive :
        /\ slotmap_at(sm, l.id) = ItemPtr(slotmap_index(l.id))
        /\ Cell(sm.items, slotmap_index(l.id)) = [version |-> IdVersion(l.id), data |-> l.d]

\* C2 as stated: handles stay stable over any adds (growth included) and any
\* removes of other handles.
C2_Original == HandlesStable

\* C2 as amended: the same, as long as no remove has hit through an id that
\* was not live (a stale id whose 8-bit version had come round again).
C2_HandleStability == ~smAba => HandlesStable

C2_Witness ==
    /\ smCfg.run = "grow" /\ ~smAba
    /\ slotmap_siz(sm) > slotmap__newcap(0, ItemSize)
    /\ smRemoves >= 1
    /\ Cardinality(smLive) >= slotmap__newcap(0, ItemSize)

\* C7: an add that finds the free list empty takes slot 'used', raises used by
\* one, returns the id (version 0, index old used), grows the block exactly
\* when used = allocated, leaves the free list empty and used <= allocated.
C7_FreshAdd ==
    [][(smLast'.op = "add" /\ slotmap_frl(sm) = 0) =>
          /\ smLast'.hit
          /\ smLast'.id = [index |-> slotmap_used(sm), version |-> 0]
          /\ slotmap_used(sm') = slotmap_used(sm) + 1
          /\ (slotmap_siz(sm') # slotmap_siz(sm)) <=> (slotmap_used(sm) = slotmap_siz(sm))
          /\ slotmap_siz(sm') >= slotmap_siz(sm)
          /\ slotmap_frl(sm') = 0
          /\ slotmap_used(sm') <= slotmap_siz(sm')]_vars

C7_Witness ==
    /\ smLast.op = "add" /\ smLast.hit
    /\ sm.frl = 0
    /\ sm.siz > slotmap__newcap(0, ItemSize)
    /\ smLast.id = [index |-> slotmap__newcap(0, ItemSize), version |-> 0]

\* The version an add issues for a slot follows the one issued before for
\* that slot, modulo the version width; the first one is 0.
VersionsSuccessive ==
    smLast'.op = "add" =>
        LET i == slotmap_index(smLast'.id) IN
        IdVersion(smLast'.id) =
            IF i \in DOMAIN smLastv THEN (smLastv[i] + 1) % VersionMod ELSE 0

\* C10 as stated.
C10_Original == [][VersionsSuccessive]_vars

\* C10 as amended: the same, as long as no remove has hit through an id that
\* was not live.
C10_VersionMonotone == [][~smAba => VersionsSuccessive]_vars

C10_Witness ==
    /\ smCfg.run = "wrap" /\ ~smAba
    /\ smLast.op = "add" /\ smLast.id = [index |-> 0, version |-> 0]
    /\ smRemoves = VersionMod

\* The free list is no longer than the slots used, which are no more than
\* the slots allocated, so a remove that hits pushes inside the free-list
\* array; the block grows only with the free list empty, and a growth leaves
\* every used record with its contents and its version.
MapAccounting ==
    /\ slotmap_frl(sm') <= slotmap_used(sm')
    /\ slotmap_used(sm') <= slotmap_siz(sm')
    /\ (smLast'.op = "remove" /\ smLast'.hit) => slotmap_frl(sm) < slotmap_siz(sm)
    /\ slotmap_siz(sm') # slotmap_siz(sm) =>
           /\ slotmap_frl(sm) = 0
           /\ \A k \in 0..(slotmap_used(sm) - 1) : Cell(sm'.items, k) = Cell(sm.items, k)

\* C38 as stated.
C38_Original == [][MapAccounting]_vars

\* C38 as amended: after any adds and removes, as long as no remove has hit
\* through an id that was not live, free count <= used <= allocated, the
\* push of a remove stays inside the free-list array, the block grows only
\* with the free list empty, and a growth keeps the used records.
C38_FreeListAccounting == [][~smAba' => MapAccounting]_vars

C38_Witness ==
    /\ smCfg.run = "grow" /\ ~smAba
    /\ smLast.op = "remove" /\ smLast.hit
    /\ slotmap_siz(sm) > slotmap__newcap(0, ItemSize)
    /\ slotmap_used(sm) = slotmap__newcap(0, ItemSize) + 1
    /\ slotmap_frl(sm) >= 2

\* C11: an add for which the reallocation fails returns no record and the
\* none id, and leaves the map as it was: the same block, allocated, used and
\* free list, and every live id still resolved by at.
C11_AddFailsClosed ==
    [][smLast'.op = "fault" =>
          /\ smRun' = "run"
          /\ smLast'.id = SLOTMAP_NONE_ID /\ ~smLast'.hit
          /\ sm' = sm
          /\ \A l \in smLive' : slotmap_at(sm', l.id) = ItemPtr(slotmap_index(l.id))]_vars

\* The slot indices of the ids on the free list, bottom first.
slotmap__freeslots(a) ==
    [k \in 0..(slotmap_frl(a) - 1) |-> slotmap_index(Cell(a.freelist, k))]

\* No slot is on the free list twice, no slot of a live id is on the free
\* list, and no two live ids share a slot.
NoDoubleAllocation ==
    LET free == slotmap__freeslots(sm) IN
    /\ \A i, j \in DOMAIN free : i # j => free[i] # free[j]
    /\ \A l \in smLive : \A i \in DOMAIN free : free[i] # slotmap_index(l.id)
    /\ \A l, m \in smLive : l # m => slotmap_index(l.id) # slotmap_index(m.id)

\* C32 as stated: in every state reached by add and remove no slot is
\* allocated twice.
C32_Original == NoDoubleAllocation

\* C32 as amended: the same, as long as no remove has hit through an id that
\* was not live.
C32_NoDoubleAllocation == ~smAba => NoDoubleAllocation

C32_Witness ==
    /\ smCfg.run = "small" /\ ~smAba
    /\ smLast.op = "add" /\ smLast.hit /\ IdVersion(smLast.id) >= 1
    /\ slotmap_frl(sm) >= 1
    /\ Cardinality(smLive) >= 2

----------------------------------------------------------------------------
(* slottable.h.  Block: Ch_SlotTable {allocated, used, active, next_free},  *)
(* index[allocated] of bucket heads, then the entries, each a               *)
(* Ch_SlotTableItem {hash, next} followed by the caller's record.           *)

\* UINT32_MAX.
SLOT_NONE_ID == -1

SLOT_DOUBLE_SIZE(n) == IF n = 0 THEN 8 ELSE n * 2

SLOTTABLE_ORDERED == 1
SLOTTABLE_FIXED_ID == 2

\* flags & f, for a one-bit f.
HasFlag(flags, f) == (flags \div f) % 2 = 1

\* sizeof(Ch_SlotTableItem)
SizeofSlotTableItem == 8

slottable_used(a) == IF a.nil THEN 0 ELSE a.used
slottable_count(a) == IF a.nil THEN 0 ELSE a.active
slottable_allocated(a) == IF a.nil THEN 0 ELSE a.allocated

slottable__fix_hash(hsh) == IF hsh = SLOT_NONE_ID THEN SLOT_NONE_ID - 1 ELSE hsh

\* hash & (allocated - 1).  allocated is a power of two (SLOT_DOUBLE_SIZE), so
\* the mask keeps the residue modulo allocated, also of a hash kept as a
\* negative integer (2^32 is a multiple of allocated).
slottable__bucket(hash, allocated) == hash % allocated

\* The caller's cmp function: 0 when the key matches the record.
cmp(key, data) == IF key = data THEN 0 ELSE 1

\* The while loop of slottable_find from entry 'id' on.  A chain without a
\* cycle has at most 'used' entries; a walk that needs more steps never ends.
RECURSIVE slottable__walk(_, _, _, _, _)
slottable__walk(a, hsh, key, id, fuel) ==
    IF id = SLOT_NONE_ID THEN [id |-> SLOT_NONE_ID, item |-> NULL, hang |-> FALSE]
    ELSE IF fuel = 0 THEN [id |-> id, item |-> NULL, hang |-> TRUE]
    ELSE LET item == Cell(a.items, id) IN
         IF hsh # item.hash \/ cmp(key, item.data) # 0
         THEN slottable__walk(a, hsh, key, item.next, fuel - 1)
         ELSE [id |-> id, item |-> ItemPtr(id), hang |-> FALSE]

slottable_find(a, hsh, key) ==
    IF a.nil THEN [id |-> SLOT_NONE_ID, item |-> NULL, hang |-> FALSE]
    ELSE LET h == slottable__fix_hash(hsh) IN
         slottable__walk(a, h, key, a.index[slottable__bucket(h, a.allocated)], a.used)

slottable_at_id(a, id) ==
    IF a.nil THEN NULL
    ELSE IF Cell(a.items, id).hash = SLOT_NONE_ID THEN NULL ELSE ItemPtr(id)

\* sizeof(Ch_SlotTable): the four header words before the index array.
SizeofSlotTable == 16

\* The entry slottable__item(a, SLOT_NONE_ID, sz) is not an entry of the block.
\* Where its address lies depends on the build: with a 64-bit size_t it is
\* about UINT32_MAX entries past the block, and the two stores fault ("crash")
\* or land in memory that is not the table's ("stray"); with a 32-bit size_t
\* the product wraps and the address is one entry before the entries
\* ("wrap32"): in the end of the index array when the record is small, in the
\* header when sz + sizeof(Ch_SlotTableItem) reaches back over the index.
WildOutcomes == {"crash", "stray", "wrap32"}

\* With a 32-bit size_t: the 32-bit word of the block, counted from its start,
\* in which entry SLOT_NONE_ID begins.
slottable__wildword(a, sz) ==
    (SizeofSlotTable + SizeofSlotId * a.allocated - (sz + SizeofSlotTableItem))
        \div SizeofSlotId

\* A store of v in word w of the block: the header, then the index array.  A
\* word before the block is not the table's.
slottable__poke(a, w, v) ==
    IF w = 0 THEN [a EXCEPT !.allocated = v]
    ELSE IF w = 1 THEN [a EXCEPT !.used = v]
    ELSE IF w = 2 THEN [a EXCEPT !.active = v]
    ELSE IF w = 3 THEN [a EXCEPT !.next_free = v]
    ELSE IF (w - 4) \in DOMAIN a.index THEN [a EXCEPT !.index[w - 4] = v]
    ELSE a

\* item->hash = SLOT_NONE_ID; item->next = __tbl__->next_free, through the
\* entry SLOT_NONE_ID.
slottable__wild(a, sz, ub) ==
    IF ub = "wrap32"
    THEN LET w == slottable__wildword(a, sz)
             h == slottable__poke(a, w, SLOT_NONE_ID)
         IN slottable__poke(h, w + 1, h.next_free)
    ELSE a

\* item->hash = SLOT_NONE_ID; item->next = next_free; next_free = id; active--
slottable__unlink(a, id) ==
    [a EXCEPT !.items[id].hash = SLOT_NONE_ID,
              !.items[id].next = a.next_free,
              !.next_free = id,
              !.active = @ - 1]

\* A miss whose stores overwrite 'allocated' or 'used' leaves a block whose
\* header no longer describes it ("corrupt"): what later calls read through it
\* is not followed further.
slottable_remove(a, hsh, key, sz, ub) ==
    IF a.nil THEN [a |-> a, id |-> SLOT_NONE_ID, data |-> NULL, run |-> "run"]
    ELSE LET f == slottable_find(a, hsh, key) IN
         IF f.hang THEN [a |-> a, id |-> f.id, data |-> NULL, run |-> "hang"]
         ELSE IF f.id = SLOT_NONE_ID
         THEN IF ub = "crash"
              THEN [a |-> a, id |-> f.id, data |-> NULL, run |-> "crash"]
              ELSE LET h == slottable__wild(a, sz, ub) IN
                   [a |-> [h EXCEPT !.next_free = SLOT_NONE_ID, !.active = @ - 1],
                    id |-> f.id, data |-> NULL,
                    run |-> IF h.allocated = a.allocated /\ h.used = a.used
                            THEN "run" ELSE "corrupt"]
         ELSE [a |-> slottable__unlink(a, f.id), id |-> f.id, data |-> f.item, run |-> "run"]

\* slottable__add_hash: link entry 'id' in front of its bucket's chain.
slottable__add_hash(a, id, item) ==
    LET idx == slottable__bucket(item.hash, a.allocated) IN
    [a EXCEPT !.items = Put(a.items, id, [item EXCEPT !.next = a.index[idx]]),
              !.index[idx] = id]

\* The loop, were it to drop the tombstones whatever the flags.
RECURSIVE slottable__copy_compact(_, _, _, _)
slottable__copy_compact(tbl, newtbl, i, flags) ==
    IF i >= tbl.used THEN newtbl
    ELSE LET item == Cell(tbl.items, i) IN
         IF item.hash # SLOT_NONE_ID
         THEN slottable__copy_compact(tbl,
                  [slottable__add_hash(newtbl, newtbl.used, item)
                       EXCEPT !.used = @ + 1, !.active = @ + 1],
                  i + 1, flags)
         ELSE slottable__copy_compact(tbl, newtbl, i + 1, flags)

\* The copy-and-rehash loop of slottable__insert from old entry i on; newtbl
\* carries newid in 'used' and newactive in 'active'.
RECURSIVE slottable__copy(_, _, _, _)
slottable__copy(tbl, newtbl, i, flags) ==
    IF i >= tbl.used THEN newtbl
    ELSE LET item == Cell(tbl.items, i) IN
         IF item.hash # SLOT_NONE_ID
         THEN slottable__copy(tbl,
                  [slottable__add_hash(newtbl, newtbl.used, item)
                       EXCEPT !.used = @ + 1, !.active = @ + 1],
                  i + 1, flags)
         ELSE IF ~HasFlag(flags, SLOTTABLE_FIXED_ID)
         THEN slottable__copy(tbl, newtbl, i + 1, flags)
         ELSE slottable__copy(tbl,
                  [newtbl EXCEPT !.items = Put(newtbl.items, newtbl.used, item),
                                 !.used = @ + 1],
                  i + 1, flags)

\* The growth, were it to carry next_free over whatever the flags.
slottable__rehash_keepfree(tbl, newsiz, flags) ==
    LET newtbl == [nil |-> FALSE, allocated |-> newsiz, used |-> 0, active |-> 0,
                   next_free |-> SLOT_NONE_ID,
                   index |-> [k \in 0..(newsiz - 1) |-> SLOT_NONE_ID],
                   items |-> <<>>]
    IN IF tbl.nil THEN newtbl
       ELSE [slottable__copy(tbl, newtbl, 0, flags) EXCEPT !.next_free = tbl.next_free]

slottable__rehash(tbl, newsiz, flags) ==
    LET newtbl == [nil |-> FALSE, allocated |-> newsiz, used |-> 0, active |-> 0,
                   next_free |-> SLOT_NONE_ID,
                   index |-> [k \in 0..(newsiz - 1) |-> SLOT_NONE_ID],
                   items |-> <<>>]
    IN IF tbl.nil THEN newtbl
       ELSE LET c == slottable__copy(tbl, newtbl, 0, flags) IN
            IF HasFlag(flags, SLOTTABLE_FIXED_ID)
            THEN [c EXCEPT !.next_free = tbl.next_free]
            ELSE c

\* if (x != SLOT_NONE_ID && (flags & SLOTTABLE_ORDERED))
slottable__reuse(x, flags) == x # SLOT_NONE_ID /\ HasFlag(flags, SLOTTABLE_ORDERED)

\* 'ok': malloc returns a block.  The code stores through the result without
\* testing it, so a failed malloc ends the process.
slottable__insert(tbl, itemsize, flags, ok) ==
    IF ~tbl.nil /\ slottable__reuse(tbl.next_free, flags)
    THEN LET x == tbl.next_free IN
         [a |-> [tbl EXCEPT !.next_free = Cell(tbl.items, x).next],
          id |-> x, item |-> ItemPtr(x), grew |-> FALSE, run |-> "run"]
    ELSE LET siz == slottable_allocated(tbl)
             used == slottable_used(tbl)
         IN IF used = siz /\ ~ok
            THEN [a |-> tbl, id |-> SLOT_NONE_ID, item |-> NULL, grew |-> FALSE, run |-> "crash"]
            ELSE LET t == IF used = siz
                          THEN slottable__rehash(tbl, SLOT_DOUBLE_SIZE(siz), flags)
                          ELSE tbl
                 IN [a |-> [t EXCEPT !.active = @ + 1, !.used = @ + 1],
                     id |-> t.used, item |-> ItemPtr(t.used),
                     grew |-> (used = siz), run |-> "run"]

\* slottable_add, and the caller's store of its record through the pointer
\* returned.
slottable_add(a, hsh, key, sz, flags, ok) ==
    LET r == slottable__insert(a, sz, flags, ok) IN
    IF r.run # "run" THEN r
    ELSE LET item == [hash |-> slottable__fix_hash(hsh), next |-> JUNK, data |-> key] IN
         [r EXCEPT !.a = slottable__add_hash(r.a, r.id, item)]

----------------------------------------------------------------------------
(* The slottable.h state machine. *)

\* The keys of the short runs with the hash the caller computes for each:
\* two keys of one bucket, and one whose hash is the sentinel.
TableKeys == { [hsh |-> 0, key |-> 1], [hsh |-> 8, key |-> 2],
               [hsh |-> SLOT_NONE_ID, key |-> 3] }
\* What the short runs look up: the keys, and a key under another hash.
TableLookups == TableKeys \cup { [hsh |-> 1, key |-> 1] }
\* The keys of a run about the sentinel: a key whose hash is the sentinel and
\* a key whose hash is the value the sentinel is fixed to.
SentinelKeys == { [hsh |-> SLOT_NONE_ID, key |-> 3], [hsh |-> SLOT_NONE_ID - 1, key |-> 4] }

\* The growing runs add key 10 + n with hash 8 * (n % 4) as their n-th entry.
GrowKey(n) == [hsh |-> 8 * (n % 4), key |-> 10 + n]

TableGrowUsed == SLOT_DOUBLE_SIZE(0) + TableGrowExtra

\* sizeof(*(a)) of the wide run: the record size with which, in the first
\* block, the entry one before the entries begins at the header.
WideItemSize ==
    SizeofSlotTable + SizeofSlotId * SLOT_DOUBLE_SIZE(0) - SizeofSlotTableItem

\* A short run passes any flags that can matter before the first table is
\* full: SLOTTABLE_FIXED_ID is read only by a growth that copies entries.  An
\* ordered run is a short run whose every insert passes SLOTTABLE_ORDERED, a
\* sentinel run a short run with the keys whose hashes meet at the sentinel.  A
\* growing run fills the first block and grows it, every insert with or
\* every insert without SLOTTABLE_FIXED_ID, and either never or sometimes
\* with SLOTTABLE_ORDERED.  It sees malloc fail on a full table.  A wide run
\* is one insert and one remove on a table of WideItemSize records, built for
\* a 32-bit size_t.
TableRuns ==
    { [run |-> "small", flags |-> {0, SLOTTABLE_ORDERED}, used |-> MaxTableAdds, adds |-> MaxTableAdds,
       removes |-> MaxTableRemoves, ok |-> BOOLEAN, ub |-> WildOutcomes,
       sz |-> TableItemSize],
      [run |-> "ordered", flags |-> {SLOTTABLE_ORDERED}, used |-> MaxTableAdds,
       adds |-> MaxTableAdds, removes |-> MaxTableRemoves, ok |-> {TRUE},
       ub |-> {"stray"}, sz |-> TableItemSize],
      [run |-> "sentinel", flags |-> {0}, used |-> MaxTableAdds,
       adds |-> MaxTableAdds, removes |-> MaxTableRemoves, ok |-> {TRUE},
       ub |-> {"stray"}, sz |-> TableItemSize],
      [run |-> "wide", flags |-> {0}, used |-> 1, adds |-> 1, removes |-> 1,
       ok |-> {TRUE}, ub |-> {"wrap32"}, sz |-> WideItemSize] }
    \cup
    { [run |-> "grow", flags |-> fs, used |-> TableGrowUsed,
       adds |-> TableGrowUsed + TableGrowRemoves,
       removes |-> TableGrowRemoves, ok |-> BOOLEAN, ub |-> {"stray"},
       sz |-> TableItemSize] :
         fs \in { {0}, {SLOTTABLE_FIXED_ID}, {0, SLOTTABLE_ORDERED},
                  {SLOTTABLE_FIXED_ID, SLOTTABLE_FIXED_ID + SLOTTABLE_ORDERED} } }

AddKeys == IF stCfg.run = "grow" THEN {GrowKey(stAdds)}
           ELSE IF stCfg.run = "sentinel" THEN SentinelKeys ELSE TableKeys
\* The entries a growing run looks up and removes: the first it added, one
\* in the middle and the last of the first block.
GrowLookups == {0, 3, SLOT_DOUBLE_SIZE(0) - 1}

LookupKeys == IF stCfg.run = "grow"
              THEN {GrowKey(n) : n \in GrowLookups \cap (0..(stAdds - 1))}
              ELSE IF stCfg.run = "sentinel" THEN SentinelKeys ELSE TableLookups

\* The id an entry of the old block has in the block a growth without
\* SLOTTABLE_FIXED_ID builds: the entries before it that are not tombstones.
slottable__newid(tbl, id) ==
    Cardinality({j \in 0..(id - 1) : Cell(tbl.items, j).hash # SLOT_NONE_ID})

InitTable ==
    /\ st = NULL
    /\ stRun = "run"
    /\ stLive = {}
    /\ stLast = [op |-> "init", hsh |-> 0, key |-> 0, id |-> SLOT_NONE_ID,
                 hit |-> FALSE, flags |-> 0]
    /\ stCfg \in TableRuns
    /\ stAdds = 0
    /\ stRemoves = 0
    /\ IdleMap
    /\ IdleList
    /\ IdleMap64
    /\ IdleLinked
    /\ IdleSizing

TableAdd(k, flags, ok) ==
    LET r == slottable_add(st, k.hsh, k.key, stCfg.sz, flags, ok)
        moved == IF r.grew /\ ~HasFlag(flags, SLOTTABLE_FIXED_ID)
                 THEN {[l EXCEPT !.id = slottable__newid(st, l.id)] : l \in stLive}
                 ELSE stLive
    IN /\ st' = r.a
       /\ stRun' = r.run
       /\ stLive' = IF r.run = "run"
                    THEN moved \cup {[id |-> r.id, hsh |-> k.hsh, key |-> k.key,
                                      seq |-> stAdds]}
                    ELSE stLive
       /\ stLast' = [op |-> "add", hsh |-> k.hsh, key |-> k.key, id |-> r.id,
                     hit |-> ~r.item.nil, flags |-> flags]
       /\ stAdds' = stAdds + 1
       /\ UNCHANGED <<stCfg, stRemoves>>
       /\ UNCHANGED notTable

TableRemove(k, ub) ==
    LET r == slottable_remove(st, k.hsh, k.key, stCfg.sz, ub) IN
    /\ st' = r.a
    /\ stRun' = r.run
    /\ stLive' = {l \in stLive : l.id # r.id}
    /\ stLast' = [op |-> "remove", hsh |-> k.hsh, key |-> k.key, id |-> r.id,
                  hit |-> ~r.data.nil, flags |-> 0]
    /\ stRemoves' = stRemoves + 1
    /\ UNCHANGED <<stCfg, stAdds>>
    /\ UNCHANGED notTable

TableFind(k) ==
    LET f == slottable_find(st, k.hsh, k.key) IN
    /\ stRun' = IF f.hang THEN "hang" ELSE "run"
    /\ stLast' = [op |-> "find", hsh |-> k.hsh, key |-> k.key, id |-> f.id,
                  hit |-> ~f.item.nil, flags |-> 0]
    /\ UNCHANGED <<st, stLive, stCfg, stAdds, stRemoves>>
    /\ UNCHANGED notTable

NextTable ==
    \/ \E k \in AddKeys, flags \in stCfg.flags, ok \in stCfg.ok :
          /\ stRun = "run"
          /\ stAdds < stCfg.adds
          /\ slottable_used(st) < stCfg.used
               \/ (~st.nil /\ slottable__reuse(st.next_free, flags))
          /\ TableAdd(k, flags, ok)
    \/ \E k \in LookupKeys, ub \in stCfg.ub :
          /\ stRun = "run"
          /\ stRemoves < stCfg.removes
          /\ TableRemove(k, ub)
    \/ \E k \in LookupKeys :
          /\ stRun = "run"
          /\ TableFind(k)

----------------------------------------------------------------------------
(* Claims about slottable.h, checked under SpecTable. *)

\* find returns the entry of key l.key.
Finds(a, l) ==
    LET f == slottable_find(a, l.hsh, l.key) IN
    ~f.hang /\ ~f.item.nil /\ Cell(a.items, f.item.at).data = l.key

\* C3: after a remove that hits, find of the removed key and at_id of the
\* removed id return none, and find of every other live key still returns
\* that key's entry, wherever the entry is linked in the removed entry's
\* bucket chain.
C3_RemoveIsolation ==
    (stRun = "run" /\ stLast.op = "remove" /\ stLast.hit) =>
        /\ (\A l \in stLive : l.key # stLast.key) =>
               slottable_find(st, stLast.hsh, stLast.key).item.nil
        /\ slottable_at_id(st, stLast.id).nil
        /\ \A l \in stLive : l.key # stLast.key => Finds(st, l)

\* C4: a remove of a key that find does not locate returns none and leaves
\* the table as it was: used, active, next_free, every bucket head and every
\* entry.
C4_RemoveMiss ==
    [][(stLast'.op = "remove" /\ ~stLast'.hit /\ stRun' # "hang") =>
           (stRun' = "run" /\ st' = st)]_vars

\* C13: an insert whose allocation fails returns none with the sentinel id
\* and leaves the table as it was, so that every key find returned before
\* is still returned.
C13_InsertFailsClosed ==
    [][(stLast'.op = "add" /\ ~stLast'.hit) =>
           /\ stRun' = "run"
           /\ stLast'.id = SLOT_NONE_ID
           /\ st' = st
           /\ \A l \in stLive : Finds(st, l) => Finds(st', l)]_vars

\* Entry j of the block is not a tombstone.
LiveAt(a, j) == Cell(a.items, j).hash # SLOT_NONE_ID

\* The entries in [0, used) that are not tombstones.
LiveCount(a) ==
    IF a.nil THEN 0 ELSE Cardinality({j \in 0..(a.used - 1) : LiveAt(a, j)})

\* C14: when every insert passes SLOTTABLE_ORDERED, an insert appends: its id
\* is 'used' as it was before the insert, never the id of a tombstone, and
\* the live entries lie in the dense array in the order of their inserts.
C14_OrderedAppends ==
    [][(stCfg.flags = {SLOTTABLE_ORDERED} /\ stLast'.op = "add" /\ stLast'.hit) =>
           /\ stLast'.id = slottable_used(st)
           /\ \A j \in 0..(slottable_used(st) - 1) : ~LiveAt(st, j) => ~LiveAt(st', j)
           /\ \A l1, l2 \in stLive' : l1.seq < l2.seq => l1.id < l2.id]_vars

\* C15: an insert without SLOTTABLE_ORDERED into a table with a free chain
\* takes the entry at next_free: that is its id, next_free becomes the
\* entry's former next, used and allocated stay, and the entry is live with
\* the fixed hash and is what find returns for its key.
C15_TombstoneReuse ==
    [][(/\ stLast'.op = "add" /\ stRun' = "run"
        /\ ~HasFlag(stLast'.flags, SLOTTABLE_ORDERED)
        /\ ~st.nil /\ st.next_free # SLOT_NONE_ID) =>
           /\ stLast'.id = st.next_free
           /\ st'.next_free = Cell(st.items, st.next_free).next
           /\ st'.used = st.used /\ st'.allocated = st.allocated
           /\ Cell(st'.items, stLast'.id).hash = slottable__fix_hash(stLast'.hsh)
           /\ ~slottable_at_id(st', stLast'.id).nil
           /\ slottable_find(st', stLast'.hsh, stLast'.key).id = stLast'.id]_vars

\* C16: active, which count() returns, is the number of entries in [0, used)
\* that are not tombstones, and active <= used <= allocated; an insert that
\* succeeds raises count() by one and a remove that hits lowers it by one.
C16_Accounting ==
    [][stRun' = "run" =>
           /\ slottable_count(st') = LiveCount(st')
           /\ slottable_count(st') <= slottable_used(st')
           /\ slottable_used(st') <= slottable_allocated(st')
           /\ (stLast'.op = "add" /\ stLast'.hit) =>
                  slottable_count(st') = slottable_count(st) + 1
           /\ (stLast'.op = "remove" /\ stLast'.hit) =>
                  slottable_count(st') = slottable_count(st) - 1]_vars

\* This step is an insert that has replaced a block by a larger one.
TableGrew ==
    /\ stLast'.op = "add" /\ stRun' = "run"
    /\ ~st.nil /\ slottable_allocated(st') # slottable_allocated(st)

\* C17: a growth without SLOTTABLE_FIXED_ID builds a block without
\* tombstones: its used is the number of live entries of the old block plus
\* the entry that is appended, next_free is the sentinel, the live entries
\* keep their number, their order and their contents, and find returns
\* every one of them, also one that find did not reach in the old block.
C17_Compaction ==
    [][(TableGrew /\ ~HasFlag(stLast'.flags, SLOTTABLE_FIXED_ID)) =>
           LET n == LiveCount(st) IN
           /\ st'.used = n + 1
           /\ st'.active = n + 1
           /\ st'.next_free = SLOT_NONE_ID
           /\ \A j \in 0..n : LiveAt(st', j)
           /\ \A j \in 0..(st.used - 1) : LiveAt(st, j) =>
                  LET old == Cell(st.items, j)
                      new == Cell(st'.items, slottable__newid(st, j))
                  IN /\ new.hash = old.hash /\ new.data = old.data
                     /\ slottable_find(st', old.hash, old.data).id = slottable__newid(st, j)
                     /\ ~slottable_find(st', old.hash, old.data).item.nil]_vars

\* A growth has compacted a block with a tombstone in the middle of the one
\* chain of its entries, behind which find did not reach the first entry.
C17_Witness ==
    /\ stCfg.run = "grow" /\ stCfg.flags = {0} /\ stRun = "run"
    /\ stLast.op = "add" /\ stLast.id = SLOT_DOUBLE_SIZE(0) - 1
    /\ slottable_allocated(st) = SLOT_DOUBLE_SIZE(SLOT_DOUBLE_SIZE(0))
    /\ \E l \in stLive : l.key = GrowKey(0).key /\ Finds(st, l)
    /\ \A l \in stLive : l.key # GrowKey(3).key

C19_HashFixing ==
    stRun = "run" =>
        \A l \in stLive :
            /\ LiveAt(st, l.id)
            /\ l.hsh = SLOT_NONE_ID =>
                   /\ Cell(st.items, l.id).hash = SLOT_NONE_ID - 1
                   /\ Finds(st, [hsh |-> SLOT_NONE_ID, key |-> l.key])
                   /\ Finds(st, [hsh |-> SLOT_NONE_ID - 1, key |-> l.key])
                   /\ ~slottable_at_id(st, l.id).nil

\* The live entries an equal key and an equal fixed hash select.
Matches(k) ==
    {l \in stLive : /\ slottable__fix_hash(l.hsh) = slottable__fix_hash(k.hsh)
                    /\ cmp(k.key, l.key) = 0}

\* C20: find returns the most recently inserted live entry with the fixed
\* hash and an equal key, and none with the sentinel id when there is no
\* such entry or the table is null.
C20_FindMostRecent ==
    stLast.op = "find" =>
        /\ stRun = "run"
        /\ Matches(stLast) = {} => (stLast.id = SLOT_NONE_ID /\ ~stLast.hit)
        /\ Matches(stLast) # {} =>
               /\ stLast.hit
               /\ \E l \in Matches(stLast) :
                      /\ l.id = stLast.id
                      /\ \A m \in Matches(stLast) : m.seq <= l.seq

\* The entries met by following next from entry 'id', for at most 'fuel'
\* entries and as long as the walk stays within the entries filled.
RECURSIVE slottable__chain(_, _, _)
slottable__chain(a, id, fuel) ==
    IF id \notin 0..(a.used - 1) \/ fuel = 0 THEN {}
    ELSE {id} \cup slottable__chain(a, Cell(a.items, id).next, fuel - 1)

\* Following next from entry 'id' reaches the sentinel within 'fuel' entries.
RECURSIVE slottable__ends(_, _, _)
slottable__ends(a, id, fuel) ==
    IF id = SLOT_NONE_ID THEN TRUE
    ELSE IF id \notin 0..(a.used - 1) \/ fuel = 0 THEN FALSE
    ELSE slottable__ends(a, Cell(a.items, id).next, fuel - 1)

\* The buckets whose chain holds entry j.
BucketsOf(a, j) ==
    {b \in 0..(a.allocated - 1) : j \in slottable__chain(a, a.index[b], a.used)}

\* C29: every live entry is on the chain of exactly one bucket, the bucket
\* of its hash; every entry below used is live or on the free chain; no live
\* entry is on the free chain.
C29_BucketSoundness ==
    (stRun = "run" /\ ~st.nil) =>
        LET free == slottable__chain(st, st.next_free, st.used) IN
        \A j \in 0..(st.used - 1) :
            IF LiveAt(st, j)
            THEN /\ BucketsOf(st, j) =
                        {slottable__bucket(Cell(st.items, j).hash, st.allocated)}
                 /\ j \notin free
            ELSE j \in free

\* C30: from every bucket head and from next_free the next links reach the
\* sentinel within used steps, and no find fails to return.
C30_ChainsAcyclic ==
    /\ stRun # "hang"
    /\ (stRun = "run" /\ ~st.nil) =>
           /\ \A b \in 0..(st.allocated - 1) : slottable__ends(st, st.index[b], st.used)
           /\ slottable__ends(st, st.next_free, st.used)

\* 8 * 2^k for some k >= 0.
RECURSIVE DoubledFromEight(_)
DoubledFromEight(n) ==
    n = SLOT_DOUBLE_SIZE(0) \/ (n > SLOT_DOUBLE_SIZE(0) /\ n % 2 = 0 /\ DoubledFromEight(n \div 2))

\* C31: allocated is 0 for the null table and 8 * 2^k otherwise; a call
\* changes it only if it is an insert that takes no tombstone and finds
\* used = allocated, and then to 8 from 0 or to twice its value.
C31_CapacityPolicy ==
    [][ stRun = "run" =>
          LET siz == slottable_allocated(st)
              grows == /\ stLast'.op = "add"
                       /\ ~(~st.nil /\ slottable__reuse(st.next_free, stLast'.flags))
                       /\ slottable_used(st) = siz
          IN /\ slottable_allocated(st') # siz =>
                    grows /\ slottable_allocated(st') = SLOT_DOUBLE_SIZE(siz)
             /\ (grows /\ stRun' = "run") => slottable_allocated(st') # siz
             /\ st'.nil \/ DoubledFromEight(slottable_allocated(st')) ]_vars

----------------------------------------------------------------------------
(* slotlist.h.  Block: SLOT_EXT_SIZE words of the caller's, allocated (m),  *)
(* count (n), then the items.  The model passes SLOT_EXT_SIZE, a constant   *)
(* of the build, as the argument 'ext'.                                     *)

\* UINT32_MAX is 2 * INT32_MAX + 1, so x < UINT32_MAX iff (x + 1) \div 2 <= INT32_MAX.
INT32_MAX == 2147483647
BelowSLOTLIST_MAX(x) == (x + 1) \div 2 <= INT32_MAX

slotlist_allocated(a) == IF a.nil THEN 0 ELSE a.m
slotlist_count(a) == IF a.nil THEN 0 ELSE a.n
slotlist_at(a, n) == Cell(a.items, n)
slotlist_last(a) == slotlist_at(a, a.n - 1)

\* UINT32_MAX, as the signed integer with the same bits.
SLOTLIST_MAX == -1

\* x > y for two uint32_t kept as the signed integers with the same bits.
Above32(x, y) == IF (x < 0) = (y < 0) THEN x > y ELSE x < 0

\* slotlist__sbn(a)+(n) > slotlist__sbm(a), in uint32_t arithmetic: the count
\* is a SLOT_ID, and so is n, as slotlist__sbgrowf takes it.  The sum wraps.
slotlist__sbneedgrow(a, n) == a.nil \/ Above32(a.n + n, a.m)

\* while (newitems < needed) newitems = SLOT_FLEX_SIZE(newitems);
RECURSIVE slotlist__flex(_, _)
slotlist__flex(newitems, needed) ==
    IF newitems < needed THEN slotlist__flex(SLOT_FLEX_SIZE(newitems), needed)
    ELSE newitems

\* newitems * itemsize, a product of two size_t of szt bits.  With 64 bits it
\* is the product.  With 32 bits it is the product modulo 2^32, which the
\* model computes for records of a multiple of SLOT_ALIGN_SIZE bytes, in
\* units of SLOT_ALIGN_SIZE bytes: 2^32 bytes are 2^28 units.
slotlist__bytes(newitems, itemsize, szt) ==
    IF szt = 32
    THEN ((newitems * (itemsize \div SLOT_ALIGN_SIZE)) % (2^28)) * SLOT_ALIGN_SIZE
    ELSE newitems * itemsize

slotlist__newsize(arr, increment, itemsize, ext, szt) ==
    LET extsize == SizeofSlotId * (2 + ext)
        needed == slotlist_count(arr) + increment + SLOT_DIV_ALIGN(extsize, itemsize)
    IN SLOT_ALIGN(slotlist__bytes(slotlist__flex(slotlist_allocated(arr), needed),
                                  itemsize, szt),
                  SLOT_ALIGN_SIZE)

slotlist__newitems(arr, increment, itemsize, ext, szt) ==
    (slotlist__newsize(arr, increment, itemsize, ext, szt) - SizeofSlotId * (2 + ext))
        \div itemsize

\* if (!arr) p[1 + SLOT_EXT_SIZE] = 0; realloc keeps the count of an old block.
slotlist__count_reset(arr) == 0

slotlist__count_kept(arr) == IF arr.nil THEN 0 ELSE arr.n

\* A growth that takes a new block and copies the count and the items into
\* it, and not the ext words in front of them.
slotlist__sbgrowf_fresh(arr, increment, itemsize, ext, szt, ok) ==
    IF slotlist_count(arr) + increment < 0 THEN NULL ELSE
    LET newitems == slotlist__newitems(arr, increment, itemsize, ext, szt) IN
    IF BelowSLOTLIST_MAX(newitems) /\ ok
    THEN [nil |-> FALSE, m |-> newitems, n |-> slotlist__count_kept(arr),
          ext |-> <<>>,
          items |-> IF arr.nil THEN <<>> ELSE arr.items]
    ELSE NULL

\* 'ok': SLOT_REALLOC returns a block.  realloc keeps the old block's bytes:
\* its ext words, its count and its items; a new block's ext words and items
\* are unwritten ('ext' and 'items' hold the written ones).
\* slotlist_count(arr) + increment is a uint32_t sum.  Below zero here, it is
\* 2^31 or more: 'needed', a size_t of 64 bits, takes it, the doubling stops
\* above UINT32_MAX and the test against SLOTLIST_MAX fails.
slotlist__sbgrowf(arr, increment, itemsize, ext, szt, ok) ==
    IF slotlist_count(arr) + increment < 0 THEN NULL ELSE
    LET newitems == slotlist__newitems(arr, increment, itemsize, ext, szt) IN
    IF BelowSLOTLIST_MAX(newitems) /\ ok
    THEN [nil |-> FALSE, m |-> newitems, n |-> slotlist__count_kept(arr),
          ext |-> IF arr.nil THEN <<>> ELSE arr.ext,
          items |-> IF arr.nil THEN <<>> ELSE arr.items]
    ELSE NULL

\* slotlist__sbmaybegrow: (a) = slotlist__sbgrowf(a, n, sizeof(*(a))) when needed.
slotlist__sbmaybegrow(a, n, itemsize, ext, szt, ok) ==
    IF slotlist__sbneedgrow(a, n) THEN slotlist__sbgrowf(a, n, itemsize, ext, szt, ok) ELSE a

\* slotlist_push.  After a failed growth 'a' is NULL and the store goes
\* through the null pointer.
slotlist_push(a, v, itemsize, ext, szt, ok) ==
    LET g == slotlist__sbmaybegrow(a, 1, itemsize, ext, szt, ok) IN
    IF g.nil THEN [a |-> g, run |-> "crash"]
    ELSE [a |-> [g EXCEPT !.items = Put(g.items, g.n, v), !.n = g.n + 1], run |-> "run"]

\* slotlist_expand and slotlist_add: the n new items are unwritten.
slotlist_expand(a, n, itemsize, ext, szt, ok) ==
    LET g == slotlist__sbmaybegrow(a, n, itemsize, ext, szt, ok) IN
    IF g.nil THEN [a |-> g, run |-> "crash"]
    ELSE [a |-> [g EXCEPT !.n = g.n + n], run |-> "run"]

\* slotlist_add: slotlist_expand, then &slotlist_at(a, slotlist__sbn(a)-(n)).
slotlist_add(a, n, itemsize, ext, szt, ok) ==
    LET r == slotlist_expand(a, n, itemsize, ext, szt, ok) IN
    [a |-> r.a, run |-> r.run,
     item |-> IF r.run = "run" THEN ItemPtr(r.a.n - n) ELSE NULL]

slotlist_truncate(a, n) ==
    IF a.nil THEN [a |-> a, ret |-> 0] ELSE [a |-> [a EXCEPT !.n = a.n - n], ret |-> 1]

\* slotlist_clear stores the count without testing the pointer.
slotlist_clear(a) ==
    IF a.nil THEN [a |-> a, run |-> "crash"] ELSE [a |-> [a EXCEPT !.n = 0], run |-> "run"]

\* slotlist_free: (a) ? free(a),0 : 0.  The caller's pointer is not reset:
\* after the free of a block it dangles, and the run is over.
slotlist_free(a) ==
    IF a.nil THEN [a |-> a, run |-> "run"] ELSE [a |-> a, run |-> "freed"]

----------------------------------------------------------------------------
(* The slotlist.h state machine. *)

ListFirstCap(itemsize, ext) == slotlist__newitems(NULL, 1, itemsize, ext, 64)

\* A short run uses every operation, pushes any value, asks for 1, 2 or
\* UINT32_MAX more items and sees realloc
\* fail on the null list; a growing run sees it fail on a full block.  The
\* longer runs push the value 10 + count, for several item sizes
\* and ext sizes: a growing run fills the first block and grows it by push
\* and expand, a shrinking run by push, and truncates and clears.
\* A narrow run is a build with a size_t of 32 bits and records of
\* NarrowItemSize bytes: one request for NarrowExpand items on the null list.
\* The builds of the longer runs: sizeof(*(a)) and SLOT_EXT_SIZE.
NarrowItemSize == 2^27
NarrowExpand == SLOT_FLEX_SIZE(0) + 1

ListBuilds == { <<1, 0>>, <<4, 0>>, <<4, 2>>, <<16, 0>>, <<16, 2>> }

ListRuns ==
    { [run |-> "small", itemsize |-> 4, ext |-> 0, szt |-> 64, count |-> MaxListCount,
       ops |-> {"push", "expand", "truncate", "clear", "free"},
       expand |-> (1..MaxExpand) \cup {SLOTLIST_MAX},
       values |-> {1, 2}, ok |-> BOOLEAN] }
    \cup
    { [run |-> "grow", itemsize |-> b[1], ext |-> b[2], szt |-> 64,
       count |-> ListFirstCap(b[1], b[2]) + ListGrowExtra,
       ops |-> {"push", "expand", "ext"}, expand |-> {MaxExpand},
       values |-> {}, ok |-> BOOLEAN] : b \in ListBuilds }
    \cup
    { [run |-> "shrink", itemsize |-> 4, ext |-> x, szt |-> 64,
       count |-> ListFirstCap(4, x) + ListGrowExtra,
       ops |-> {"push", "truncate", "clear", "ext"}, expand |-> {},
       values |-> {}, ok |-> {TRUE}] : x \in {0, 2} }
    \cup
    { [run |-> "narrow", itemsize |-> NarrowItemSize, ext |-> 0, szt |-> 32,
       count |-> NarrowExpand, ops |-> {"expand"}, expand |-> {NarrowExpand},
       values |-> {}, ok |-> {TRUE}] }

PushValues == IF slCfg.run = "small" THEN slCfg.values ELSE {10 + slotlist_count(sl)}

InitList ==
    /\ sl = NULL
    /\ slRun = "run"
    /\ slLast = [op |-> "init", arg |-> 0, ret |-> 0]
    /\ slCfg \in ListRuns
    /\ IdleMap
    /\ IdleTable
    /\ IdleMap64
    /\ IdleLinked
    /\ IdleSizing

ListPush(v, ok) ==
    LET r == slotlist_push(sl, v, slCfg.itemsize, slCfg.ext, slCfg.szt, ok) IN
    /\ sl' = r.a
    /\ slRun' = r.run
    /\ slLast' = [op |-> "push", arg |-> v, ret |-> IF r.run = "run" THEN 1 ELSE 0]
    /\ UNCHANGED slCfg
    /\ UNCHANGED notList

\* slotlist_add, which is slotlist_expand and the pointer it returns.
ListExpand(n, ok) ==
    LET r == slotlist_add(sl, n, slCfg.itemsize, slCfg.ext, slCfg.szt, ok) IN
    /\ sl' = r.a
    /\ slRun' = r.run
    /\ slLast' = [op |-> "expand", arg |-> n, ret |-> IF r.run = "run" THEN 1 ELSE 0,
                  item |-> r.item]
    /\ UNCHANGED slCfg
    /\ UNCHANGED notList

ListTruncate(n) ==
    LET r == slotlist_truncate(sl, n) IN
    /\ sl' = r.a
    /\ slLast' = [op |-> "truncate", arg |-> n, ret |-> r.ret]
    /\ UNCHANGED <<slRun, slCfg>>
    /\ UNCHANGED notList

ListClear ==
    LET r == slotlist_clear(sl) IN
    /\ sl' = r.a
    /\ slRun' = r.run
    /\ slLast' = [op |-> "clear", arg |-> 0, ret |-> IF r.run = "run" THEN 1 ELSE 0]
    /\ UNCHANGED slCfg
    /\ UNCHANGED notList

ListFree ==
    LET r == slotlist_free(sl) IN
    /\ sl' = r.a
    /\ slRun' = r.run
    /\ slLast' = [op |-> "free", arg |-> 0, ret |-> 0]
    /\ UNCHANGED slCfg
    /\ UNCHANGED notList

\* The caller stores w in the first of its ext words.
ListSetExt(w) ==
    /\ sl' = [sl EXCEPT !.ext = Put(sl.ext, 0, w)]
    /\ slLast' = [op |-> "ext", arg |-> w, ret |-> 1]
    /\ UNCHANGED <<slRun, slCfg>>
    /\ UNCHANGED notList

\* Callers truncate by at most the count.
NextList ==
    \/ \E v \in PushValues, ok \in slCfg.ok :
          /\ slRun = "run" /\ "push" \in slCfg.ops
          /\ slotlist_count(sl) < slCfg.count
          /\ ListPush(v, ok)
    \/ \E n \in slCfg.expand, ok \in slCfg.ok :
          /\ slRun = "run" /\ "expand" \in slCfg.ops
          /\ slotlist_count(sl) + n <= slCfg.count
          /\ ListExpand(n, ok)
    \/ \E n \in 1..MaxExpand :
          /\ slRun = "run" /\ "truncate" \in slCfg.ops
          /\ sl.nil \/ n <= slotlist_count(sl)
          /\ ListTruncate(n)
    \/ /\ slRun = "run" /\ "clear" \in slCfg.ops
       /\ ListClear
    \/ /\ slRun = "run" /\ "free" \in slCfg.ops
       /\ ListFree
    \/ \E w \in {7} :
          /\ slRun = "run" /\ "ext" \in slCfg.ops
          /\ ~sl.nil /\ slCfg.ext > 0
          /\ ListSetExt(w)

----------------------------------------------------------------------------
(* Claims about slotlist.h, checked under SpecList. *)

\* C5: after a push that succeeds, on the null list, on a list with room
\* and on a full list that grows, the last item is the value pushed, the
\* count is one more than before, and every item below the old count is as
\* it was.
C5_PushRoundTrip ==
    [][(slLast'.op = "push" /\ slRun' = "run") =>
           /\ slotlist_last(sl') = slLast'.arg
           /\ slotlist_count(sl') = slotlist_count(sl) + 1
           /\ \A i \in 0..(slotlist_count(sl) - 1) :
                  slotlist_at(sl', i) = slotlist_at(sl, i)]_vars

\* A push has grown a full first block and stored behind its items.
C5_Witness ==
    /\ slLast.op = "push" /\ slRun = "run" /\ slCfg.run = "grow" /\ ~sl.nil
    /\ sl.m > ListFirstCap(slCfg.itemsize, slCfg.ext)
    /\ sl.n = ListFirstCap(slCfg.itemsize, slCfg.ext) + 1
    /\ slotlist_last(sl) = 10 + ListFirstCap(slCfg.itemsize, slCfg.ext)

\* C12: a push or expand whose growth fails reports the failure and leaves
\* the list as it was: the same block, count, allocated and items.
C12_GrowFailsClosed ==
    [][(slLast'.op \in {"push", "expand"} /\ slLast'.ret = 0) =>
           /\ slRun' = "run"
           /\ sl' = sl]_vars

\* C21: across every step of push, add, expand, truncate and clear the
\* allocated item count never goes down, and it is never below the count.
C21_Capacity ==
    [][/\ slotlist_allocated(sl') >= slotlist_allocated(sl)
       /\ slotlist_allocated(sl') >= slotlist_count(sl')]_vars

\* The n slots from index 'first' on lie below the allocated item count; n is
\* a uint32_t, and below zero here it is 2^31 or more.
SlotsBelowAllocated(a, first, n) == n >= 0 /\ first + n <= slotlist_allocated(a)

\* C22: an add (expand) of n that returns raises the count by n, returns the
\* address of the item at the old count, the first of n slots that all lie
\* below allocated, and leaves every item below the old count as it was.
C22_AddReserves ==
    [][(slLast'.op = "expand" /\ slRun' = "run") =>
           /\ slotlist_count(sl') = slotlist_count(sl) + slLast'.arg
           /\ slLast'.item = ItemPtr(slotlist_count(sl))
           /\ SlotsBelowAllocated(sl', slotlist_count(sl), slLast'.arg)
           /\ \A i \in 0..(slotlist_count(sl) - 1) :
                  slotlist_at(sl', i) = slotlist_at(sl, i)]_vars

\* What truncate and clear leave alone: the block handle, allocated, the ext
\* words and the items below the new count.
ListFrameKept(a, b) ==
    /\ b.nil = a.nil
    /\ slotlist_allocated(b) = slotlist_allocated(a)
    /\ (~a.nil => b.ext = a.ext)
    /\ \A i \in 0..(slotlist_count(b) - 1) : slotlist_at(b, i) = slotlist_at(a, i)

\* C23: truncate(n) with n <= count lowers the count by n, clear sets it to
\* 0 and never fails, and both leave the block handle, allocated, the ext
\* words and the remaining items as they were.
C23_TruncateClearFrame ==
    [][/\ (slLast'.op = "truncate" /\ slLast'.arg <= slotlist_count(sl)) =>
              /\ slRun' = "run"
              /\ slotlist_count(sl') = slotlist_count(sl) - slLast'.arg
              /\ ListFrameKept(sl, sl')
       /\ slLast'.op = "clear" =>
              /\ slRun' = "run"
              /\ slotlist_count(sl') = 0
              /\ ListFrameKept(sl, sl')]_vars

\* C37: on the null list count and allocated are 0, truncate returns 0 and
\* free returns, both leaving the list null, clear returns with the count
\* at 0, and a push or an expand that succeeds leaves a block whose count is
\* what the operation added to 0.
C37_EmptyState ==
    [][sl.nil =>
          /\ slotlist_count(sl) = 0
          /\ slotlist_allocated(sl) = 0
          /\ slLast'.op \in {"truncate", "free"} =>
                 slLast'.ret = 0 /\ sl' = sl /\ slRun' = "run"
          /\ slLast'.op = "clear" => slRun' = "run" /\ slotlist_count(sl') = 0
          /\ (slLast'.op \in {"push", "expand"} /\ slRun' = "run") =>
                 /\ ~sl'.nil
                 /\ slotlist_count(sl') = IF slLast'.op = "push" THEN 1 ELSE slLast'.arg]_vars

\* C24: a push or an expand that grows a block keeps its ext words and its
\* items below the old count, and the count changes by what the operation
\* adds only: the growth changes allocated and nothing else.
C24_GrowthKeepsPrefix ==
    [][(/\ slLast'.op \in {"push", "expand"} /\ slRun' = "run"
        /\ ~sl.nil /\ slotlist_allocated(sl') # slotlist_allocated(sl)) =>
           /\ sl'.ext = sl.ext
           /\ slotlist_count(sl') =
                  slotlist_count(sl) + (IF slLast'.op = "push" THEN 1 ELSE slLast'.arg)
           /\ \A i \in 0..(slotlist_count(sl) - 1) :
                  slotlist_at(sl', i) = slotlist_at(sl, i)]_vars

\* A full first block with a written ext word and items has grown.
C24_Witness ==
    /\ slLast.op \in {"push", "expand"} /\ slRun = "run" /\ ~sl.nil
    /\ slCfg.ext = 2 /\ 0 \in DOMAIN sl.ext /\ sl.ext[0] = 7
    /\ sl.m > ListFirstCap(slCfg.itemsize, slCfg.ext)
    /\ sl.n > ListFirstCap(slCfg.itemsize, slCfg.ext)
    /\ slotlist_at(sl, 0) = 10

\* C34: after a growth that succeeds for a request of n more items, the byte
\* size of the block is a multiple of SLOT_ALIGN_SIZE and holds the two
\* header words, the ext words and allocated items; allocated is at least
\* the old count plus n, above the old allocated, and below UINT32_MAX.
C34_GrowthSizing ==
    [][LET n == IF slLast'.op = "push" THEN 1 ELSE slLast'.arg
           newsize == slotlist__newsize(sl, n, slCfg.itemsize, slCfg.ext, slCfg.szt)
       IN (/\ slLast'.op \in {"push", "expand"} /\ slRun' = "run"
           /\ slotlist__sbneedgrow(sl, n)) =>
              /\ newsize % SLOT_ALIGN_SIZE = 0
              /\ SizeofSlotId * (2 + slCfg.ext) + slotlist_allocated(sl') * slCfg.itemsize
                     <= newsize
              /\ slotlist_allocated(sl') >= slotlist_count(sl) + n
              /\ slotlist_allocated(sl') > slotlist_allocated(sl)
              /\ BelowSLOTLIST_MAX(slotlist_allocated(sl'))]_vars

----------------------------------------------------------------------------
(* slotmap64.h.  Block: allocated (siz), filled (use), free-list head      *)
(* (frl), free-list count (frc), then the items.  An id is the pair         *)
(* {index, version}.  A record starts with its version word; the word       *)
(* after it ('rest') is the caller's while the slot is live and the         *)
(* SLOTMAP64_FREE overlay's next_free while the slot is free.               *)

\* UINT32_MAX.
SLOTMAP64_MAX_INDEX == -1

slotmap64__id(index, v) == [index |-> index, version |-> v]
SLOTMAP64_NONE_ID == slotmap64__id(-1, -1)

\* A uint32_t plus one.
Inc32(v) == IF v = -1 THEN 0 ELSE v + 1

slotmap64_used(a) == IF a.nil THEN 0 ELSE a.use
slotmap64_count(a) == IF a.nil THEN 0 ELSE a.use - a.frc
slotmap64_allocated(a) == IF a.nil THEN 0 ELSE a.siz

slotmap64_at(a, id) ==
    IF a.nil THEN NULL
    ELSE IF id.index >= 0 /\ id.index < a.use
         THEN IF Cell(a.items, id.index).version # id.version THEN NULL
              ELSE ItemPtr(id.index)
         ELSE NULL

\* slotmap64_id: the pair of (o)-slotmap64_array(a) and the record's version.
slotmap64_id(a, o) == slotmap64__id(o.at, Cell(a.items, o.at).version)

\* slotmap64__frc(c)++: the macro names 'c', which is not one of its
\* parameters.  Where the caller's map is the variable c the map's count is
\* incremented; where c is something else the map's count is not.
slotmap64__frc_inc(a, c) == IF c = "a" THEN [a EXCEPT !.frc = @ + 1] ELSE a

slotmap64_remove_and(a, id, c) ==
    LET item == slotmap64_at(a, id) IN
    IF a.nil \/ item.nil THEN [a |-> a, item |-> NULL]
    ELSE LET over == [version |-> Inc32(Cell(a.items, item.at).version), rest |-> a.frl]
         IN [a |-> slotmap64__frc_inc([a EXCEPT !.items[item.at] = over,
                                               !.frl = id.index], c),
             item |-> item]

slotmap64__newsiz(siz, itemsize) ==
    SLOT_ALIGN(SLOT_FLEX_SIZE(siz) * itemsize + SizeofSlotId * 4, SLOT_ALIGN_SIZE)

slotmap64__newcap(siz, itemsize) ==
    (slotmap64__newsiz(siz, itemsize) - SizeofSlotId * 4) \div itemsize

\* The free-list branch: pop the head.
slotmap64__pop(arr) ==
    [arr EXCEPT !.frc = @ - 1, !.frl = Cell(arr.items, arr.frl).rest]

slotmap64__make(arr, itemsize) ==
    IF ~arr.nil /\ arr.frl # SLOTMAP64_MAX_INDEX
    THEN [a |-> slotmap64__pop(arr),
          id |-> slotmap64__id(arr.frl, Cell(arr.items, arr.frl).version),
          item |-> ItemPtr(arr.frl)]
    ELSE LET siz == slotmap64_allocated(arr)
             used == slotmap64_used(arr)
             p == IF used = siz
                  THEN IF arr.nil
                       THEN [nil |-> FALSE, siz |-> slotmap64__newcap(siz, itemsize),
                             use |-> 0, frl |-> SLOTMAP64_MAX_INDEX, frc |-> 0,
                             items |-> <<>>]
                       ELSE [arr EXCEPT !.siz = slotmap64__newcap(siz, itemsize)]
                  ELSE arr
         IN [a |-> [p EXCEPT !.use = @ + 1],
             id |-> slotmap64__id(p.use, 0),
             item |-> ItemPtr(p.use)]

\* slotmap64__new: the block argument (nothing for add, *__item__ = *o for
\* copy), then the version of the id.  'o' is the record stored: the
\* caller's after an add, the source of a copy.
slotmap64__new(a, itemsize, o) ==
    LET r == slotmap64__make(a, itemsize) IN
    [r EXCEPT !.a.items = Put(r.a.items, r.item.at,
                              [version |-> r.id.version, rest |-> o.rest])]

----------------------------------------------------------------------------
(* The slotmap64.h state machine. *)

Grow64Used == slotmap64__newcap(0, ItemSize64) + GrowExtra

\* 'frc' is what the identifier c names where slotmap64_remove_and is used.
Map64Runs ==
    { [run |-> "small", slots |-> MaxUsed, removes |-> MaxRemoves, data |-> Data,
       frc |-> c] : c \in {"a", "other"} }
    \cup
    { [run |-> "grow", slots |-> Grow64Used, removes |-> GrowRemoves, data |-> GrowData,
       frc |-> c] : c \in {"a", "other"} }

InitMap64 ==
    /\ m64 = NULL
    /\ m64Issued = {}
    /\ m64Live = {}
    /\ m64Last = [op |-> "init", id |-> SLOTMAP64_NONE_ID, hit |-> FALSE]
    /\ m64Cfg \in Map64Runs
    /\ m64Removes = 0
    /\ IdleMap
    /\ IdleTable
    /\ IdleList
    /\ IdleLinked
    /\ IdleSizing

Map64New(op, o) ==
    LET r == slotmap64__new(m64, ItemSize64, o) IN
    /\ m64' = r.a
    /\ m64Issued' = m64Issued \cup {r.id}
    /\ m64Live' = m64Live \cup {r.id}
    /\ m64Last' = [op |-> op, id |-> r.id, hit |-> ~r.item.nil]
    /\ UNCHANGED <<m64Cfg, m64Removes>>
    /\ UNCHANGED notMap64

\* slotmap64_add, and the caller's store of its data in the record returned.
Map64Add(d) == Map64New("add", [version |-> 0, rest |-> d])

\* slotmap64_copy of a record the caller holds outside the map.
Map64Copy(o) == Map64New("copy", o)

Map64Remove(id) ==
    LET r == slotmap64_remove_and(m64, id, m64Cfg.frc) IN
    /\ m64' = r.a
    /\ m64Live' = IF r.item.nil THEN m64Live ELSE m64Live \ {id}
    /\ m64Last' = [op |-> "remove", id |-> IF r.item.nil THEN SLOTMAP64_NONE_ID ELSE id,
                  hit |-> ~r.item.nil]
    /\ m64Removes' = IF r.item.nil THEN m64Removes ELSE m64Removes + 1
    /\ UNCHANGED <<m64Issued, m64Cfg>>
    /\ UNCHANGED notMap64

Map64CanAdd ==
    \/ slotmap64_used(m64) < m64Cfg.slots
    \/ (~m64.nil /\ m64.frl # SLOTMAP64_MAX_INDEX)

NextMap64 ==
    \/ \E d \in m64Cfg.data : Map64CanAdd /\ Map64Add(d)
    \/ \E d \in m64Cfg.data : Map64CanAdd /\ Map64Copy([version |-> 7, rest |-> d])
    \/ \E id \in m64Issued : m64Removes < m64Cfg.removes /\ Map64Remove(id)

----------------------------------------------------------------------------
(* Claims about slotmap64.h, checked under SpecMap64. *)

\* The versions of the ids issued so far for slot i.
Versions64(i) == {h.version : h \in {g \in m64Issued : g.index = i}}

\* C6: an add with a non-empty free list pops the head: the id returned has
\* the head's index and the version after that of the record removed there,
\* frl becomes the popped slot's next_free, frc is one less, use and siz are
\* unchanged, at of the new id succeeds and at of every older id of the slot
\* is none.
C6_AddPopsHead ==
    [][(m64Last'.op = "add" /\ ~m64.nil /\ m64.frl # SLOTMAP64_MAX_INDEX) =>
           LET i == m64.frl IN
           /\ m64Last'.hit
           /\ m64Last'.id.index = i
           /\ \A v \in Versions64(i) : v < m64Last'.id.version
           /\ m64Last'.id.version - 1 \in Versions64(i)
           /\ m64'.frl = Cell(m64.items, i).rest
           /\ m64.frc # 0 /\ m64'.frc = m64.frc - 1
           /\ m64'.use = m64.use /\ m64'.siz = m64.siz
           /\ slotmap64_at(m64', m64Last'.id) = ItemPtr(i)
           /\ \A h \in m64Issued : h.index = i => slotmap64_at(m64', h).nil]_vars

\* C9: count() = use - frc is the number of ids issued by add and copy and
\* not yet removed, and at succeeds for exactly those ids.
C9_CountIsLive ==
    /\ slotmap64_count(m64) = Cardinality(m64Live)
    /\ \A h \in m64Issued : (~slotmap64_at(m64, h).nil) <=> (h \in m64Live)

----------------------------------------------------------------------------
(* slotmap.h with the linked free list (src/unnamed/part_003).  Block:      *)
(* allocated (siz), filled (use), free-list head (frl), free-list count     *)
(* (frc), then the items.  An id packs an 8-bit version over a 24-bit       *)
(* index.  A record starts with its one-byte version; the three bytes       *)
(* after it ('rest') are the caller's while the slot is live and the        *)
(* SLOTMAP_FREE overlay's next_free while the slot is free.  The names of   *)
(* this variant carry the prefix linked_.                                   *)

\* SLOT_NONE_ID as a packed word: all 32 bits set.
linked_NONE == [index |-> SLOTMAP_MAX_ID, version |-> VersionMod - 1]

linked_slotmap_used(a) == IF a.nil THEN 0 ELSE a.use
linked_slotmap_count(a) == IF a.nil THEN 0 ELSE a.use - a.frc
linked_slotmap_allocated(a) == IF a.nil THEN 0 ELSE a.siz

linked_slotmap_at(a, id) ==
    IF a.nil THEN NULL
    ELSE IF slotmap_index(id) < a.use
         THEN IF Cell(a.items, slotmap_index(id)).version # IdVersion(id) THEN NULL
              ELSE ItemPtr(slotmap_index(id))
         ELSE NULL

\* (SLOTMAP_FREE){item->version + 1, slotmap__frl(a)}: the bit fields keep
\* the low 8 bits of the version and the low 24 bits of the head.
linked_SLOTMAP_FREE(version, next_free) ==
    [version |-> version % VersionMod, rest |-> slotmap_index(next_free)]

linked_slotmap_remove_and(a, id) ==
    LET item == linked_slotmap_at(a, id) IN
    IF a.nil \/ item.nil THEN [a |-> a, item |-> NULL]
    ELSE [a |-> [a EXCEPT !.items[item.at] =
                              linked_SLOTMAP_FREE(Cell(a.items, item.at).version + 1, a.frl),
                          !.frl = Word(slotmap_index(id)),
                          !.frc = @ + 1],
          item |-> item]

\* What a read of a slot nothing has written yet can give: the bytes the
\* allocator left there, all zero or all one.
JunkOverlays == { [version |-> 0, rest |-> 0],
                  [version |-> VersionMod - 1, rest |-> SLOTMAP_MAX_ID] }

\* *(SLOTMAP_FREE *)(arr + x): the first word of slot x.
linked_free_item(a, x, junk) == IF x \in DOMAIN a.items THEN a.items[x] ELSE junk

\* The while loop of slotmap_burn from x on: zero the overlay of every slot
\* of the chain.  A chain without a cycle has at most 'use' slots; a walk
\* that needs more steps never ends.
RECURSIVE linked_slotmap__burn(_, _, _, _)
linked_slotmap__burn(a, x, fuel, junk) ==
    IF slotmap_index(x) = SLOTMAP_MAX_ID THEN [a |-> a, run |-> "run"]
    ELSE IF fuel = 0 THEN [a |-> a, run |-> "hang"]
    ELSE linked_slotmap__burn(
             [a EXCEPT !.items = Put(a.items, slotmap_index(x), [version |-> 0, rest |-> 0])],
             Word(linked_free_item(a, slotmap_index(x), junk).rest), fuel - 1, junk)

\* The slots the while loop of slotmap_burn visits from x on.
RECURSIVE linked_slotmap__chain(_, _, _, _)
linked_slotmap__chain(a, x, fuel, junk) ==
    IF slotmap_index(x) = SLOTMAP_MAX_ID \/ fuel = 0 THEN {}
    ELSE {slotmap_index(x)} \cup
         linked_slotmap__chain(a, Word(linked_free_item(a, slotmap_index(x), junk).rest),
                               fuel - 1, junk)

\* The slots on the free list of a.
linked_freelist(a, junk) ==
    IF a.nil THEN {} ELSE linked_slotmap__chain(a, a.frl, a.use, junk)

\* slotmap_burn; its Q_ID is taken to be a 32-bit unsigned integer.
linked_slotmap_burn(a, junk) ==
    IF a.nil THEN [a |-> a, run |-> "run"]
    ELSE linked_slotmap__burn([a EXCEPT !.frl = linked_NONE], a.frl, a.use, junk)

linked_slotmap__newsiz(siz, itemsize) ==
    SLOT_ALIGN(SLOT_FLEX_SIZE(siz) * itemsize + SizeofSlotId * 4, SLOT_ALIGN_SIZE)

linked_slotmap__newcap(siz, itemsize) ==
    (linked_slotmap__newsiz(siz, itemsize) - SizeofSlotId * 4) \div itemsize

linked_slotmap__make(arr, itemsize, junk) ==
    IF ~arr.nil /\ slotmap_index(arr.frl) # SLOTMAP_MAX_ID
    THEN LET x == slotmap_index(arr.frl)
             free_item == linked_free_item(arr, x, junk)
         IN [a |-> [arr EXCEPT !.frc = @ - 1, !.frl = Word(free_item.rest)],
             id |-> slotmap__id(arr.frl, free_item.version),
             item |-> ItemPtr(x)]
    ELSE LET siz == linked_slotmap_allocated(arr)
             used == linked_slotmap_used(arr)
             p == IF used = siz
                  THEN IF arr.nil
                       THEN [nil |-> FALSE, siz |-> linked_slotmap__newcap(siz, itemsize),
                             use |-> 0, frl |-> linked_NONE, frc |-> 0, items |-> <<>>]
                       ELSE [arr EXCEPT !.siz = linked_slotmap__newcap(siz, itemsize)]
                  ELSE arr
         IN [a |-> [p EXCEPT !.use = @ + 1], id |-> Word(p.use), item |-> ItemPtr(p.use)]

\* slotmap__new: the block argument (nothing for add, *__item__ = *o for
\* copy), then the version of the id.  'o' is the record stored: the
\* caller's after an add, the source of a copy.
linked_slotmap__new(a, itemsize, o, junk) ==
    LET r == linked_slotmap__make(a, itemsize, junk) IN
    [r EXCEPT !.a.items = Put(r.a.items, r.item.at,
                              [version |-> IdVersion(r.id), rest |-> o.rest])]

----------------------------------------------------------------------------
(* The state machine of slotmap.h with the linked free list. *)

LinkedGrowUsed == linked_slotmap__newcap(0, ItemSize) + GrowExtra

LinkedRuns ==
    { [run |-> "small", slots |-> MaxUsed, removes |-> MaxRemoves, burns |-> MaxBurns,
       data |-> Data],
      [run |-> "grow", slots |-> LinkedGrowUsed, removes |-> GrowRemoves, burns |-> MaxBurns,
       data |-> GrowData],
      [run |-> "stale", slots |-> 1, removes |-> StaleRemoves, burns |-> MaxBurns,
       data |-> StaleData] }

InitLinked ==
    /\ lm = NULL
    /\ lmRun = "run"
    /\ lmIssued = {}
    /\ lmLive = {}
    /\ lmLast = [op |-> "init", id |-> linked_NONE, hit |-> FALSE]
    /\ lmCfg \in LinkedRuns
    /\ lmRemoves = 0
    /\ lmBurns = 0
    /\ lmBurnt = {}
    /\ IdleMap
    /\ IdleTable
    /\ IdleList
    /\ IdleMap64
    /\ IdleSizing

LinkedNew(op, o, junk) ==
    LET r == linked_slotmap__new(lm, ItemSize, o, junk) IN
    /\ lm' = r.a
    /\ lmIssued' = lmIssued \cup {r.id}
    /\ lmLive' = lmLive \cup {r.id}
    /\ lmLast' = [op |-> op, id |-> r.id, hit |-> ~r.item.nil, o |-> o]
    /\ UNCHANGED <<lmRun, lmCfg, lmRemoves, lmBurns, lmBurnt>>
    /\ UNCHANGED notLinked

\* slotmap_add, and the caller's store of its data in the record returned.
LinkedAdd(d, junk) == LinkedNew("add", [version |-> 0, rest |-> d], junk)

\* slotmap_copy of a record the caller holds outside the map.
LinkedCopy(o, junk) == LinkedNew("copy", o, junk)

LinkedRemove(id) ==
    LET r == linked_slotmap_remove_and(lm, id) IN
    /\ lm' = r.a
    /\ lmLive' = IF r.item.nil THEN lmLive ELSE lmLive \ {id}
    /\ lmLast' = [op |-> "remove", id |-> IF r.item.nil THEN linked_NONE ELSE id,
                  hit |-> ~r.item.nil]
    /\ lmRemoves' = IF r.item.nil THEN lmRemoves ELSE lmRemoves + 1
    /\ UNCHANGED <<lmRun, lmIssued, lmCfg, lmBurns, lmBurnt>>
    /\ UNCHANGED notLinked

LinkedBurn(junk) ==
    LET r == linked_slotmap_burn(lm, junk) IN
    /\ lm' = r.a
    /\ lmRun' = r.run
    /\ lmLast' = [op |-> "burn", id |-> linked_NONE, hit |-> FALSE]
    /\ lmBurns' = lmBurns + 1
    /\ lmBurnt' = lmBurnt \cup linked_freelist(lm, junk)
    /\ UNCHANGED <<lmIssued, lmLive, lmCfg, lmRemoves>>
    /\ UNCHANGED notLinked

\* A run takes fresh slots up to its number of slots and pops the free list
\* until frc, a uint32_t, has gone below zero.
LinkedCanAdd ==
    /\ lmRun = "run"
    /\ \/ linked_slotmap_used(lm) < lmCfg.slots
       \/ (~lm.nil /\ slotmap_index(lm.frl) # SLOTMAP_MAX_ID /\ lm.frc >= 0)

NextLinked ==
    \/ \E d \in lmCfg.data, junk \in JunkOverlays : LinkedCanAdd /\ LinkedAdd(d, junk)
    \/ \E d \in lmCfg.data, junk \in JunkOverlays :
          LinkedCanAdd /\ LinkedCopy([version |-> 7, rest |-> d], junk)
    \/ \E id \in lmIssued :
          lmRun = "run" /\ lmRemoves < lmCfg.removes /\ LinkedRemove(id)
    \/ \E junk \in JunkOverlays : lmRun = "run" /\ lmBurns < lmCfg.burns /\ LinkedBurn(junk)

----------------------------------------------------------------------------
(* Claims about slotmap.h with the linked free list, checked under          *)
(* SpecLinked.                                                              *)

\* The number of slots on the chain from x to the sentinel; -1 for a chain
\* that does not end.
RECURSIVE ChainLength(_, _, _)
ChainLength(a, x, fuel) ==
    IF slotmap_index(x) = SLOTMAP_MAX_ID THEN 0
    ELSE IF fuel = 0 THEN -1
    ELSE LET n == ChainLength(a, Word(Cell(a.items, slotmap_index(x)).rest), fuel - 1)
         IN IF n = -1 THEN -1 ELSE n + 1

\* C8: after any sequence of add, copy, remove and burn, frc is the number
\* of slots on the chain from frl to the sentinel, and frc <= use <= siz.
C8_FreeListAccounting ==
    (lmRun = "run" /\ ~lm.nil) =>
        /\ lm.frc = ChainLength(lm, lm.frl, lm.use)
        /\ 0 <= lm.frc /\ lm.frc <= lm.use /\ lm.use <= lm.siz

\* C26: a copy takes the slot an add would take in the same state and has
\* the same id, used, free-list head, free count and allocated as that add;
\* the record stored is the source in all but its version, which is the
\* version of the id returned, and at() of that id returns the record.
C26_CopyIsAdd ==
    [][lmLast'.op = "copy" =>
          \E junk \in JunkOverlays :
          LET add == linked_slotmap__new(lm, ItemSize, [version |-> 0, rest |-> 0], junk)
              item == linked_slotmap_at(lm', lmLast'.id)
          IN /\ lmLast'.hit /\ lmLast'.id = add.id
             /\ lm'.use = add.a.use /\ lm'.frl = add.a.frl
             /\ lm'.frc = add.a.frc /\ lm'.siz = add.a.siz
             /\ item = add.item
             /\ Cell(lm'.items, item.at) =
                    [lmLast'.o EXCEPT !.version = IdVersion(lmLast'.id)]
             /\ \A i \in 0..(linked_slotmap_used(lm) - 1) :
                    i # add.item.at => Cell(lm'.items, i) = Cell(lm.items, i)]_vars

\* Every live id resolves to its slot.
LinkedLiveResolve(a) ==
    \A h \in lmLive : linked_slotmap_at(a, h) = ItemPtr(slotmap_index(h))

\* C27: a burn leaves the free-list head at the sentinel and the overlay of
\* every slot that was free zeroed, keeps used, allocated and every other
\* record, and every live id resolves after it; no add or copy after a burn
\* takes a slot that was free at the burn, and the add or copy that follows
\* a burn takes the slot at index used.
C27_BurnDrains ==
    [][/\ (lmLast'.op = "burn") =>
              /\ lmRun' = "run"
              /\ (lm.nil => lm'.nil)
              /\ (~lm.nil =>
                     /\ slotmap_index(lm'.frl) = SLOTMAP_MAX_ID
                     /\ lm'.use = lm.use /\ lm'.siz = lm.siz
                     /\ \A i \in 0..(lm.use - 1) :
                            Cell(lm'.items, i) =
                                IF i \in (lmBurnt' \ lmBurnt)
                                THEN [version |-> 0, rest |-> 0]
                                ELSE Cell(lm.items, i))
              /\ LinkedLiveResolve(lm')
       /\ (lmLast'.op \in {"add", "copy"}) =>
              /\ slotmap_index(lmLast'.id) \notin lmBurnt
              /\ (lmLast.op = "burn" =>
                     slotmap_index(lmLast'.id) = linked_slotmap_used(lm))]_vars

\* C33: an id that was removed is rejected by at as long as its slot has been
\* removed fewer than 2^8 times since the id was issued.  A run has fewer
\* removes than that, so at rejects every id issued that is not live.
C33_VersionWrap ==
    (~lm.nil /\ lmRemoves < VersionMod) =>
        \A h \in lmIssued \ lmLive : linked_slotmap_at(lm, h).nil

----------------------------------------------------------------------------
(* slotmap.h and slotmap64.h side by side: a run of either.                 *)

\* The runs that grow the block and the run that wraps a version.
InitIds ==
    \/ InitMap /\ smCfg.run \in {"grow", "wrap"}
    \/ InitMap64 /\ m64Cfg.run = "grow"

NextIds ==
    \/ smCfg.run # "idle" /\ NextMap
    \/ m64Cfg.run # "idle" /\ NextMap64

\* at(h) returns a record and slotmap_id of that record is h.
RoundTrip32(h) ==
    LET o == slotmap_at(sm, h) IN ~o.nil /\ slotmap_id(sm, o) = h

RoundTrip64(h) ==
    LET o == slotmap64_at(m64, h) IN ~o.nil /\ slotmap64_id(m64, o) = h

----------------------------------------------------------------------------
(* slotmap.h with the linked free list and slotmap64.h in step: the same    *)
(* calls are made on a map of each.                                         *)

\* The 64-bit id with the index and the version of a 32-bit id.
Wide(id) == slotmap64__id(slotmap_index(id), IdVersion(id))

PairRuns ==
    { [run |-> "pair", slots |-> MaxUsed, removes |-> MaxRemoves, data |-> Data, frc |-> c] :
          c \in {"a", "other"} }

InitPair ==
    /\ lm = NULL
    /\ lmRun = "run"
    /\ lmIssued = {}
    /\ lmLive = {}
    /\ lmLast = [op |-> "init", id |-> linked_NONE, hit |-> FALSE]
    /\ lmCfg \in PairRuns
    /\ lmRemoves = 0
    /\ lmBurns = 0
    /\ lmBurnt = {}
    /\ m64 = NULL
    /\ m64Issued = {}
    /\ m64Live = {}
    /\ m64Last = [op |-> "init", id |-> SLOTMAP64_NONE_ID, hit |-> FALSE]
    /\ m64Cfg = lmCfg
    /\ m64Removes = 0
    /\ IdleMap
    /\ IdleTable
    /\ IdleList
    /\ IdleSizing

\* slotmap_add and slotmap64_add, and the caller's store of d in each record.
PairAdd(d, junk) ==
    LET r == linked_slotmap__new(lm, ItemSize, [version |-> 0, rest |-> d], junk)
        q == slotmap64__new(m64, ItemSize64, [version |-> 0, rest |-> d])
    IN /\ lm' = r.a
       /\ lmIssued' = lmIssued \cup {r.id}
       /\ lmLive' = lmLive \cup {r.id}
       /\ lmLast' = [op |-> "add", id |-> r.id, hit |-> ~r.item.nil]
       /\ m64' = q.a
       /\ m64Issued' = m64Issued \cup {q.id}
       /\ m64Live' = m64Live \cup {q.id}
       /\ m64Last' = [op |-> "add", id |-> q.id, hit |-> ~q.item.nil]
       /\ UNCHANGED <<lmRun, lmCfg, lmRemoves, lmBurns, lmBurnt, m64Cfg, m64Removes>>
       /\ UNCHANGED <<mapVars, tableVars, listVars, sizingVars>>

\* slotmap_remove of a 32-bit id and slotmap64_remove_and of the 64-bit id
\* with the same index and version.
PairRemove(id) ==
    LET r == linked_slotmap_remove_and(lm, id)
        q == slotmap64_remove_and(m64, Wide(id), m64Cfg.frc)
    IN /\ lm' = r.a
       /\ lmLive' = IF r.item.nil THEN lmLive ELSE lmLive \ {id}
       /\ lmLast' = [op |-> "remove", id |-> id, hit |-> ~r.item.nil]
       /\ lmRemoves' = IF r.item.nil THEN lmRemoves ELSE lmRemoves + 1
       /\ m64' = q.a
       /\ m64Live' = IF q.item.nil THEN m64Live ELSE m64Live \ {Wide(id)}
       /\ m64Last' = [op |-> "remove", id |-> Wide(id), hit |-> ~q.item.nil]
       /\ m64Removes' = IF q.item.nil THEN m64Removes ELSE m64Removes + 1
       /\ UNCHANGED <<lmRun, lmIssued, lmCfg, lmBurns, lmBurnt, m64Issued, m64Cfg>>
       /\ UNCHANGED <<mapVars, tableVars, listVars, sizingVars>>

NextPair ==
    \/ \E d \in lmCfg.data, junk \in JunkOverlays :
          /\ linked_slotmap_used(lm) < lmCfg.slots \/ linked_slotmap_count(lm) < lmCfg.slots
          /\ PairAdd(d, junk)
    \/ \E id \in lmIssued : lmRemoves < lmCfg.removes /\ PairRemove(id)

\* The free list of the 32-bit map from x on: the index and the overlay
\* version of each slot, head first.
RECURSIVE linked_FreeSeq(_, _, _)
linked_FreeSeq(a, x, fuel) ==
    IF slotmap_index(x) = SLOTMAP_MAX_ID \/ fuel = 0 THEN <<>>
    ELSE LET o == Cell(a.items, slotmap_index(x))
         IN <<[index |-> slotmap_index(x), version |-> o.version]>> \o
            linked_FreeSeq(a, Word(o.rest), fuel - 1)

\* The free list of the 64-bit map from x on.
RECURSIVE slotmap64_FreeSeq(_, _, _)
slotmap64_FreeSeq(a, x, fuel) ==
    IF x = SLOTMAP64_MAX_INDEX \/ fuel = 0 THEN <<>>
    ELSE LET o == Cell(a.items, x)
         IN <<[index |-> x, version |-> o.version]>> \o
            slotmap64_FreeSeq(a, o.rest, fuel - 1)

\* C28: after the same adds and removes the two maps have issued ids with
\* the same indices and versions, the last call hit or missed in both, at()
\* resolves the same ids in both, and used, count and the free list (its
\* slots and their next versions, in order) are the same.
C28_SameAsNarrow ==
    (lmCfg.run = "pair") =>
        /\ m64Issued = {Wide(h) : h \in lmIssued}
        /\ m64Last.hit = lmLast.hit
        /\ lmLast.op = "add" => m64Last.id = Wide(lmLast.id)
        /\ \A h \in lmIssued :
               linked_slotmap_at(lm, h).nil = slotmap64_at(m64, Wide(h)).nil
        /\ slotmap64_used(m64) = linked_slotmap_used(lm)
        /\ slotmap64_count(m64) = linked_slotmap_count(lm)
        /\ lm.nil = m64.nil
        /\ ~lm.nil =>
               slotmap64_FreeSeq(m64, m64.frl, m64.use) = linked_FreeSeq(lm, lm.frl, lm.use)

----------------------------------------------------------------------------
(* The specifications: one container runs, the others stay as constructed. *)

----------------------------------------------------------------------------
(* slotbase.h: SLOT_ALIGN, and SLOT_FLEX_SIZE in the loop of               *)
(* slotlist__sbgrowf, as functions of their inputs.  A size_t of 32 bits   *)
(* is kept as its signed bit pattern.                                      *)

MaxAlignBytes == 40

AlignSizes == {1, 2, 4, 8, SLOT_ALIGN_SIZE}

AlignRuns ==
    {[run |-> "align", n |-> n, d |-> d, pc |-> "call"] : n \in 0..MaxAlignBytes, d \in AlignSizes}

\* newitems = slotlist_allocated(arr) and needed, as slotlist__sbgrowf enters its loop
FlexRuns ==
    {[run |-> "flex", szt |-> 64, newitems |-> a, needed |-> n, pc |-> "loop"] :
        a \in {0, 9, 10, 11, 99, 100, 999, 1000, 9999, 10000, 10001, 30000},
        n \in {0, 1, 10, 11, 101, 1001, 10001, 20001, 160001}}
    \cup
    \* slotlist_expand(a, 3000000000) and slotlist_expand(a, 4000000000) on
    \* the null list, 4-byte items: needed = n + 2
    {[run |-> "flex", szt |-> 32, newitems |-> 0, needed |-> n, pc |-> "loop"] :
        n \in {-1294967294, -294967294}}

\* (n) * 2 in a size_t of 32 bits
slot__double32(n) ==
    IF n > INT32_MAX \div 2 THEN (n - INT32_MAX - 1) * 2
    ELSE IF n < -(INT32_MAX \div 2) - 1 THEN (n + INT32_MAX + 1) * 2
    ELSE n * 2

\* SLOT_FLEX_SIZE on a size_t of szt bits
slot__flex(n, szt) ==
    IF szt = 32
    THEN IF Above32(10, n) THEN 10
         ELSE IF Above32(100, n) THEN 100
         ELSE IF Above32(1000, n) THEN 1000
         ELSE IF Above32(10000, n) THEN 10000
         ELSE slot__double32(n)
    ELSE SLOT_FLEX_SIZE(n)

\* newitems < needed
slot__below(newitems, needed, szt) ==
    IF szt = 32 THEN Above32(needed, newitems) ELSE newitems < needed

InitSizing ==
    /\ sizing \in AlignRuns \cup FlexRuns
    /\ IdleMap
    /\ IdleTable
    /\ IdleList
    /\ IdleMap64
    /\ IdleLinked

\* newsize = SLOT_ALIGN(n, d)
AlignCall ==
    /\ sizing.run = "align"
    /\ sizing.pc = "call"
    /\ sizing' = [run |-> "align", n |-> sizing.n, d |-> sizing.d, pc |-> "done",
              out |-> SLOT_ALIGN(sizing.n, sizing.d)]
    /\ UNCHANGED notSizing

\* one turn of: while (newitems < needed) newitems = SLOT_FLEX_SIZE(newitems);
FlexStep ==
    /\ sizing.run = "flex"
    /\ sizing.pc = "loop"
    /\ slot__below(sizing.newitems, sizing.needed, sizing.szt)
    /\ sizing' = [sizing EXCEPT !.newitems = slot__flex(sizing.newitems, sizing.szt)]
    /\ UNCHANGED notSizing

\* the loop's test fails and slotlist__sbgrowf goes on
FlexExit ==
    /\ sizing.run = "flex"
    /\ sizing.pc = "loop"
    /\ ~slot__below(sizing.newitems, sizing.needed, sizing.szt)
    /\ sizing' = [sizing EXCEPT !.pc = "done"]
    /\ UNCHANGED notSizing

NextSizing == AlignCall \/ FlexStep \/ FlexExit

\* C35: SLOT_FLEX_SIZE(n) is 10 below 10, 100 below 100, 1000 below 1000,
\* 10000 below 10000 and 2n from there on, so every turn of the loop of
\* slotlist__sbgrowf leaves newitems above what it was, and the loop ends.
C35_GrowthSchedule ==
    /\ [][(sizing.run = "flex" /\ sizing'.newitems # sizing.newitems) =>
             /\ sizing.szt = 64 =>
                    sizing'.newitems =
                        IF sizing.newitems < 10 THEN 10
                        ELSE IF sizing.newitems < 100 THEN 100
                        ELSE IF sizing.newitems < 1000 THEN 1000
                        ELSE IF sizing.newitems < 10000 THEN 10000
                        ELSE 2 * sizing.newitems
             /\ Above32(sizing'.newitems, sizing.newitems)]_vars
    /\ (sizing.run = "flex") ~> (sizing.pc = "done")

AlignSmallestAtLeast ==
    (sizing.run = "align" /\ sizing.pc = "done") =>
        /\ sizing.out % sizing.d = 0
        /\ sizing.out >= sizing.n
        /\ sizing.out - sizing.d < sizing.n

C36_Original == AlignSmallestAtLeast

\* C36: for a byte count n and a power of two d, SLOT_ALIGN(n, d) is the
\* smallest multiple of d above n: n + d when n is a multiple of d.
C36_AlignRounding ==
    (sizing.run = "align" /\ sizing.pc = "done") =>
        /\ sizing.out % sizing.d = 0
        /\ sizing.out > sizing.n
        /\ sizing.out - sizing.d <= sizing.n
        /\ sizing.n % sizing.d = 0 => sizing.out = sizing.n + sizing.d

C36_Witness ==
    /\ sizing.run = "align"
    /\ sizing.pc = "done"
    /\ sizing.d = SLOT_ALIGN_SIZE
    /\ sizing.n = 2 * SLOT_ALIGN_SIZE
    /\ sizing.out = 3 * SLOT_ALIGN_SIZE

SpecMap == InitMap /\ [][NextMap]_vars

SpecTable == InitTable /\ [][NextTable]_vars

SpecList == InitList /\ [][NextList]_vars

SpecIds == InitIds /\ [][NextIds]_vars

SpecPair == InitPair /\ [][NextPair]_vars

SpecMap64 == InitMap64 /\ [][NextMap64]_vars

SpecLinked == InitLinked /\ [][NextLinked]_vars

SpecSizing == InitSizing /\ [][NextSizing]_vars

\* slotlist__sbgrowf runs its loop on: no turn of it waits for anything
SpecSizingLive == InitSizing /\ [][NextSizing]_vars /\ WF_vars(NextSizing)
====
